---- MODULE Spec2Model ----
(***************************************************************************)
(* Engine dispatch pipeline of the meta-search aggregator:                 *)
(*   src/src/engines/circuit_breaker.rs  CircuitBreaker                    *)
(*   src/src/engines/registry.rs         EngineRegistry::search            *)
(*   src/src/models.rs                   SearchQuery::get_categories       *)
(*   src/src/engines/aggregator.rs       aggregate, normalize_url          *)
(*                                                                         *)
(* Time is a discrete monotonic clock `now` (std::time::Instant).  One     *)
(* clock unit stands for one second of cooldown/timeout and for one        *)
(* throttle quantum; the code never compares the two kinds of duration.    *)
(***************************************************************************)
EXTENDS Integers, Sequences, FiniteSets, TLC

(***************************************************************************)
(* Bounds of the model.                                                    *)
(***************************************************************************)
\* last value of the clock
MaxTime == 5
\* number of search() calls that may be running at the same time
MaxSlots == 2
\* number of search() calls issued in the sequential scenario
MaxSeqSearches == 5
\* largest failure_threshold / cooldown drawn for the stand-alone breaker
MaxThreshold == 3
MaxCooldown == 2
\* largest throttle drawn for the throttled engine
MaxThrottle == 2
\* longest result list an adapter returns when score shaping is checked alone
MaxResults == 3
\* longest input list handed to aggregate when it is checked alone
MaxInputs == 3
\* largest number of query pairs of a URL handed to normalize_url
MaxParams == 2

(***************************************************************************)
(* Option<Instant>: None is the empty sequence, Some(t) is <<t>>.          *)
(***************************************************************************)
None == << >>
Some(t) == << t >>

VARIABLES
    now,           \* the monotonic clock read by Instant::now() / elapsed()
    cb,            \* a stand-alone CircuitBreaker (as in test_circuit_breaker_flow)
    cbHist,        \* observation of the last call made on cb
    brk,           \* EngineEntry.circuit_breaker of every registered engine
    last_request,  \* EngineEntry.last_request of every registered engine
    task,          \* the engine tasks spawned by the search() calls
    srch,          \* the search() calls: query, harvested raw_results, return value
    config,        \* EngineEntry.config of every registered engine
    obs,           \* the mock adapter's call_count and the test's bookkeeping
    call           \* one call of a function on its own: arguments and result

bvars == << cb, cbHist >>
rvars == << config, brk, last_request, task, srch, obs, call >>
vars == << now, cb, cbHist, config, brk, last_request, task, srch, obs, call >>

(***************************************************************************)
(* circuit_breaker.rs                                                      *)
(***************************************************************************)
CircuitBreakerState == {"Closed", "Open", "HalfOpen"}

\* CircuitBreaker::new
NewBreaker(failure_threshold, cooldown) ==
    [ state             |-> "Closed",
      failures          |-> 0,
      last_failure      |-> None,
      failure_threshold |-> failure_threshold,
      cooldown          |-> cooldown ]

\* Instant::elapsed of `last` read at clock value t
Elapsed(last, t) == t - last

\* mutant of CooldownPassed: the comparison is strict
CooldownPassedStrict(b, t) ==
    b.last_failure # None /\ Elapsed(b.last_failure[1], t) > b.cooldown

\* `if let Some(last) = self.last_failure { if last.elapsed() >= self.cooldown`
CooldownPassed(b, t) ==
    b.last_failure # None /\ Elapsed(b.last_failure[1], t) >= b.cooldown

\* mutant of Check: HalfOpen admits every caller
CheckHalfOpenAdmits(b, t) ==
    CASE b.state = "Closed"   -> [ret |-> TRUE, cb |-> b]
      [] b.state = "Open"     ->
            IF CooldownPassed(b, t)
            THEN [ret |-> TRUE, cb |-> [b EXCEPT !.state = "HalfOpen"]]
            ELSE [ret |-> FALSE, cb |-> b]
      [] b.state = "HalfOpen" -> [ret |-> TRUE, cb |-> b]

\* mutant of Check: Open admits every caller and stays Open
CheckOpenAdmits(b, t) ==
    CASE b.state = "Closed"   -> [ret |-> TRUE, cb |-> b]
      [] b.state = "Open"     -> [ret |-> TRUE, cb |-> b]
      [] b.state = "HalfOpen" -> [ret |-> FALSE, cb |-> b]

\* CircuitBreaker::check at clock value t: the returned bool and the breaker
\* after the call
Check(b, t) ==
    CASE b.state = "Closed"   -> [ret |-> TRUE, cb |-> b]
      [] b.state = "Open"     ->
            IF CooldownPassed(b, t)
            THEN [ret |-> TRUE, cb |-> [b EXCEPT !.state = "HalfOpen"]]
            ELSE [ret |-> FALSE, cb |-> b]
      [] b.state = "HalfOpen" -> [ret |-> FALSE, cb |-> b]

\* mutant of ReportSuccess: last_failure is cleared in every state
ReportSuccessClearsStamp(b) ==
    IF b.state = "HalfOpen"
    THEN [b EXCEPT !.state = "Closed", !.failures = 0, !.last_failure = None]
    ELSE IF b.state = "Closed"
         THEN [b EXCEPT !.failures = 0, !.last_failure = None]
         ELSE [b EXCEPT !.last_failure = None]

\* mutant of ReportSuccess: a success arriving in Open half-opens the breaker
ReportSuccessHalfOpens(b) ==
    IF b.state = "HalfOpen"
    THEN [b EXCEPT !.state = "Closed", !.failures = 0, !.last_failure = None]
    ELSE IF b.state = "Closed"
         THEN [b EXCEPT !.failures = 0]
         ELSE [b EXCEPT !.state = "HalfOpen"]

\* CircuitBreaker::report_success
ReportSuccess(b) ==
    IF b.state = "HalfOpen"
    THEN [b EXCEPT !.state = "Closed", !.failures = 0, !.last_failure = None]
    ELSE IF b.state = "Closed"
         THEN [b EXCEPT !.failures = 0]
         ELSE b

\* mutant of ReportFailure: a failed probe keeps the old last_failure
ReportFailureStaleStamp(b, t) ==
    CASE b.state = "Closed" ->
            LET f == b.failures + 1 IN
            IF f >= b.failure_threshold
            THEN [b EXCEPT !.failures = f, !.state = "Open",
                           !.last_failure = Some(t)]
            ELSE [b EXCEPT !.failures = f]
      [] b.state = "HalfOpen" -> [b EXCEPT !.state = "Open"]
      [] b.state = "Open" -> [b EXCEPT !.last_failure = Some(t)]

\* mutant of ReportFailure: every failure is counted, whatever the state
ReportFailureCountsAll(b, t) ==
    CASE b.state = "Closed" ->
            LET f == b.failures + 1 IN
            IF f >= b.failure_threshold
            THEN [b EXCEPT !.failures = f, !.state = "Open",
                           !.last_failure = Some(t)]
            ELSE [b EXCEPT !.failures = f]
      [] b.state = "HalfOpen" ->
            [b EXCEPT !.failures = @ + 1, !.state = "Open", !.last_failure = Some(t)]
      [] b.state = "Open" -> [b EXCEPT !.failures = @ + 1, !.last_failure = Some(t)]

\* mutant of ReportFailure: a failure reported in Open is ignored
ReportFailureOpenIgnored(b, t) ==
    CASE b.state = "Closed" ->
            LET f == b.failures + 1 IN
            IF f >= b.failure_threshold
            THEN [b EXCEPT !.failures = f, !.state = "Open",
                           !.last_failure = Some(t)]
            ELSE [b EXCEPT !.failures = f]
      [] b.state = "HalfOpen" ->
            [b EXCEPT !.state = "Open", !.last_failure = Some(t)]
      [] b.state = "Open" -> b

\* CircuitBreaker::report_failure at clock value t
ReportFailure(b, t) ==
    CASE b.state = "Closed" ->
            LET f == b.failures + 1 IN
            IF f >= b.failure_threshold
            THEN [b EXCEPT !.failures = f, !.state = "Open",
                           !.last_failure = Some(t)]
            ELSE [b EXCEPT !.failures = f]
      [] b.state = "HalfOpen" ->
            [b EXCEPT !.state = "Open", !.last_failure = Some(t)]
      [] b.state = "Open" -> [b EXCEPT !.last_failure = Some(t)]

(***************************************************************************)
(* models.rs: SearchQuery::get_categories.  A string is a sequence of       *)
(* symbols: "," , " " (white space) or a word (a maximal run of other       *)
(* characters).  A tag is again such a sequence.                            *)
(***************************************************************************)
General == << "general" >>
Images == << "images" >>

RECURSIVE SplitComma(_)
\* str::split(','): the pieces between the commas, empty pieces included
SplitComma(str) ==
    IF \E i \in 1..Len(str) : str[i] = ","
    THEN LET i == CHOOSE k \in 1..Len(str) :
                      str[k] = "," /\ \A j \in 1..(k-1) : str[j] # ","
         IN << SubSeq(str, 1, i - 1) >> \o SplitComma(SubSeq(str, i + 1, Len(str)))
    ELSE << str >>

RECURSIVE Trim(_)
\* str::trim: white space removed at both ends
Trim(str) ==
    IF str = << >> THEN str
    ELSE IF Head(str) = " " THEN Trim(Tail(str))
    ELSE IF str[Len(str)] = " " THEN Trim(SubSeq(str, 1, Len(str) - 1))
    ELSE str

\* mutant of GetCategories: the default tag is added to every query
GetCategoriesAlwaysGeneral(categories) ==
    << General >> \o
    LET pieces == SplitComma(categories)
        trimmed == [i \in 1..Len(pieces) |-> Trim(pieces[i])]
    IN SelectSeq(trimmed, LAMBDA x : x # << >>)

\* SearchQuery::get_categories
GetCategories(categories) ==
    IF categories = << >>
    THEN << General >>
    ELSE LET pieces == SplitComma(categories)
             trimmed == [i \in 1..Len(pieces) |-> Trim(pieces[i])]
         IN SelectSeq(trimmed, LAMBDA x : x # << >>)

(***************************************************************************)
(* The registered engines (EngineRegistry::register_engine): the adapter's *)
(* declared categories and the EngineConfig it was registered with.        *)
(* weight is in units of 1/12, so that weight / (index + 1) is exact for   *)
(* the result lists of the model.                                          *)
(***************************************************************************)
Engines == {"e1", "e2", "e3"}

EngineCategories(e) ==
    CASE e = "e1" -> << General >>
      [] e = "e2" -> << Images >>
      [] e = "e3" -> << General, Images >>

Settings(e) ==
    CASE e = "e1" -> [enabled |-> TRUE, weight |-> 12, timeout |-> 2,
                      throttle |-> 2, failure_threshold |-> 2, cooldown |-> 2]
      [] e = "e2" -> [enabled |-> TRUE, weight |-> 12, timeout |-> 1,
                      throttle |-> 0, failure_threshold |-> 1, cooldown |-> 1]
      [] e = "e3" -> [enabled |-> FALSE, weight |-> 12, timeout |-> 2,
                      throttle |-> 0, failure_threshold |-> 1, cooldown |-> 1]

\* entry.config: the snapshot taken by register_engine
EngineConfig(e) == config[e]

\* the query strings the callers send in SearchQuery.categories
Queries ==
    { << >>, << "images" >>, << "general", ",", "images" >>, << " ", "," >> }

(***************************************************************************)
(* URLs and results.  A URL string is described by its parts as written:   *)
(* whether Url::parse accepts it, its scheme and the pieces of its host    *)
(* (in the case they are written in), its path ("" = none given), whether  *)
(* it has a query part ("?") and the keys of its query pairs in order, and *)
(* whether it carries a fragment.  The schemes are http and https, the     *)
(* schemes of the result links the adapters extract.                       *)
(***************************************************************************)
TrackingParams ==
    { "utm_source", "utm_medium", "utm_campaign", "utm_term", "utm_content",
      "fbclid", "gclid", "msclkid" }

UrlString(scheme, host, path, qmark, params, frag) ==
    [parse |-> TRUE, scheme |-> scheme, host |-> host, path |-> path,
     qmark |-> qmark, params |-> params, frag |-> frag]

\* an https URL written in lower case
Url(host, path, params, frag) ==
    UrlString("https", host, path, params # << >>, params, frag)

\* ASCII lower-casing of the pieces that occur in upper case
Lower(piece) ==
    CASE piece = "HTTPS" -> "https"
      [] piece = "HTTP" -> "http"
      [] piece = "Example" -> "example"
      [] piece = "COM" -> "com"
      [] OTHER -> piece

\* Url::parse of an http(s) URL: scheme and host come out in lower case and
\* an empty path becomes "/"
Parse(u) ==
    [u EXCEPT !.scheme = Lower(@),
              !.host = [i \in 1..Len(u.host) |-> Lower(u.host[i])],
              !.path = IF @ = "" THEN "/" ELSE @]

\* mutant of NormalizeUrl: the fragment is left in place
NormalizeUrlKeepsFragment(u) ==
    IF u.parse
    THEN LET pairs == SelectSeq(Parse(u).params, LAMBDA k : k \notin TrackingParams)
         IN [Parse(u) EXCEPT !.params = pairs, !.qmark = (pairs # << >>)]
    ELSE u

\* the position of the first tracking parameter of params (0 = none)
FirstTracking(params) ==
    IF \E i \in 1..Len(params) : params[i] \in TrackingParams
    THEN CHOOSE i \in 1..Len(params) :
            /\ params[i] \in TrackingParams
            /\ \A j \in 1..(i - 1) : params[j] \notin TrackingParams
    ELSE 0

\* mutant of NormalizeUrl: only the first tracking parameter is removed
NormalizeUrlDropsOne(u) ==
    IF u.parse
    THEN LET n == FirstTracking(u.params)
             pairs == IF n = 0 THEN u.params
                      ELSE SubSeq(u.params, 1, n - 1)
                              \o SubSeq(u.params, n + 1, Len(u.params))
         IN [Parse(u) EXCEPT !.frag = FALSE, !.params = pairs,
                             !.qmark = (pairs # << >>)]
    ELSE u

\* mutant of NormalizeUrl: the keys are compared without regard to case
NormalizeUrlAnyCase(u) ==
    IF u.parse
    THEN LET pairs == SelectSeq(Parse(u).params,
                                LAMBDA k : k \notin TrackingParams
                                           /\ k # "UTM_SOURCE")
         IN [Parse(u) EXCEPT !.frag = FALSE, !.params = pairs,
                             !.qmark = (pairs # << >>)]
    ELSE u

\* mutant of NormalizeUrl: a string that does not parse is cleaned as well
NormalizeUrlLenient(u) ==
    LET pairs == SelectSeq(u.params, LAMBDA k : k \notin TrackingParams)
    IN IF u.parse
       THEN [Parse(u) EXCEPT !.frag = FALSE, !.params = pairs,
                             !.qmark = (pairs # << >>)]
       ELSE [u EXCEPT !.frag = FALSE, !.params = pairs, !.qmark = (pairs # << >>)]

\* normalize_url: parse, drop the fragment, keep the pairs whose key is not a
\* tracking parameter, drop the query when none is left, write back
NormalizeUrl(u) ==
    IF u.parse
    THEN LET pairs == SelectSeq(Parse(u).params, LAMBDA k : k \notin TrackingParams)
         IN [Parse(u) EXCEPT !.frag = FALSE, !.params = pairs,
                             !.qmark = (pairs # << >>)]
    ELSE u

\* `host.contains(blocked)`: blocked occurs as a contiguous run of the host
Contains(host, blocked) ==
    \E i \in 0..(Len(host) - Len(blocked)) :
        SubSeq(host, i + 1, i + Len(blocked)) = blocked

\* mutant of HostBlocked: the host must equal a blocklist entry
HostBlockedExact(u, blocklist) ==
    u.parse /\ \E i \in 1..Len(blocklist) : Parse(u).host = blocklist[i]

\* aggregate: the host-blocking test of one result
HostBlocked(u, blocklist) ==
    u.parse /\ \E i \in 1..Len(blocklist) : Contains(Parse(u).host, blocklist[i])

\* mutant of KeyIndex: entries are looked up by host alone
KeyIndexByHost(map, key) ==
    IF \E i \in 1..Len(map) : map[i].url.host = key.host
    THEN CHOOSE i \in 1..Len(map) : map[i].url.host = key.host
    ELSE 0

\* index of the entry with this key in the merge map (0 = absent); the map is
\* kept as the sequence of its values in order of insertion
KeyIndex(map, key) ==
    IF \E i \in 1..Len(map) : map[i].url = key
    THEN CHOOSE i \in 1..Len(map) : map[i].url = key
    ELSE 0

\* mutant of MergeEngines: every engine id of the new sighting is pushed
MergeEnginesPushAll(existing, more) == existing \o more

(***************************************************************************)
(* f64 scores.  A score is an integer number of units and, as an f64, has  *)
(* a significand of a fixed number of bits: a sum that needs more bits is  *)
(* rounded to the nearest value that has one, ties to the even             *)
(* significand.  f64 keeps 53 bits; the model keeps SignificandBits, which *)
(* leaves every sum of three of the scores below 2^SignificandBits exact.  *)
(***************************************************************************)
SignificandBits == 8

RECURSIVE Ulp(_)
\* the distance between neighbouring f64 values at magnitude x >= 0
Ulp(x) == IF x < 2^SignificandBits THEN 1 ELSE 2 * Ulp(x \div 2)

\* round-to-nearest, ties-to-even, of the exact value x
RoundNearestEven(x) ==
    LET mag == IF x < 0 THEN 0 - x ELSE x
        u == Ulp(mag)
        lo == (mag \div u) * u
        r == mag - lo
        near == IF 2 * r < u THEN lo
                ELSE IF 2 * r > u THEN lo + u
                ELSE IF (lo \div u) % 2 = 0 THEN lo ELSE lo + u
    IN IF x < 0 THEN 0 - near ELSE near

\* `+` on f64, as in `existing.score += res.score`
F64Add(a, b) == RoundNearestEven(a + b)

RECURSIVE MergeEngines(_, _)
\* `for engine in res.engines { if !existing.engines.contains(..) { push } }`
MergeEngines(existing, more) ==
    IF more = << >> THEN existing
    ELSE IF \E i \in 1..Len(existing) : existing[i] = Head(more)
         THEN MergeEngines(existing, Tail(more))
         ELSE MergeEngines(Append(existing, Head(more)), Tail(more))

\* ResultContent: Text(String) as the sequence of the pieces of its text,
\* Image { src, .. } by its src
Text(pieces) == [kind |-> "Text", text |-> pieces, src |-> ""]
Image(src) == [kind |-> "Image", text |-> << >>, src |-> src]

\* ammonia::clean: a script element goes, with what it encloses; a <b>
\* element and plain text stay
Clean(text) == SelectSeq(text, LAMBDA piece : piece # "<script>alert</script>")

\* mutant of Sanitize: the content is left as the adapter wrote it
SanitizeNothing(res) == res

\* `if let ResultContent::Text(ref text) = res.content { .. ammonia::clean }`
Sanitize(res) ==
    IF res.content.kind = "Text"
    THEN [res EXCEPT !.content = Text(Clean(res.content.text))]
    ELSE res

RECURSIVE MergeAllKeepsLast(_, _, _)
\* mutant of MergeAll: a further sighting also replaces title, content and
\* metadata of the stored result
MergeAllKeepsLast(map, results, blocklist) ==
    IF results = << >> THEN map
    ELSE LET res == Sanitize(Head(results))
             key == NormalizeUrl(res.url)
             i == KeyIndex(map, key)
         IN IF HostBlocked(res.url, blocklist)
            THEN MergeAllKeepsLast(map, Tail(results), blocklist)
            ELSE IF i # 0
                 THEN MergeAllKeepsLast(
                          [map EXCEPT ![i].score = @ + res.score,
                                      ![i].engines = MergeEngines(@, res.engines),
                                      ![i].title = res.title,
                                      ![i].content = res.content,
                                      ![i].metadata = res.metadata],
                          Tail(results), blocklist)
                 ELSE MergeAllKeepsLast(Append(map, [res EXCEPT !.url = key]),
                                        Tail(results), blocklist)

RECURSIVE MergeAllMax(_, _, _)
\* mutant of MergeAll: a further sighting raises the score to the larger of
\* the two instead of adding to it
MergeAllMax(map, results, blocklist) ==
    IF results = << >> THEN map
    ELSE LET res == Sanitize(Head(results))
             key == NormalizeUrl(res.url)
             i == KeyIndex(map, key)
         IN IF HostBlocked(res.url, blocklist)
            THEN MergeAllMax(map, Tail(results), blocklist)
            ELSE IF i # 0
                 THEN MergeAllMax([map EXCEPT ![i].score =
                                        IF res.score > @ THEN res.score ELSE @,
                                      ![i].engines = MergeEngines(@, res.engines)],
                                  Tail(results), blocklist)
                 ELSE MergeAllMax(Append(map, [res EXCEPT !.url = key]),
                                  Tail(results), blocklist)

RECURSIVE MergeAll(_, _, _)
\* aggregate: the loop over the results, building unique_results
MergeAll(map, results, blocklist) ==
    IF results = << >> THEN map
    ELSE LET res == Sanitize(Head(results))
             key == NormalizeUrl(res.url)
             i == KeyIndex(map, key)
         IN IF HostBlocked(res.url, blocklist)
            THEN MergeAll(map, Tail(results), blocklist)
            ELSE IF i # 0
                 THEN MergeAll([map EXCEPT ![i].score = F64Add(@, res.score),
                                           ![i].engines = MergeEngines(@, res.engines)],
                               Tail(results), blocklist)
                 ELSE MergeAll(Append(map, [res EXCEPT !.url = key]),
                               Tail(results), blocklist)

\* the sequences holding exactly the elements of seq, each once
Perms(seq) ==
    { [i \in 1..Len(seq) |-> seq[f[i]]] :
        f \in { g \in [1..Len(seq) -> 1..Len(seq)] :
                  \A a, b \in 1..Len(seq) : a # b => g[a] # g[b] } }

\* mutant of Aggregate: the merged values are returned without sorting
AggregateUnsorted(results, blocklist) ==
    Perms(MergeAll(<< >>, results, blocklist))

\* aggregate: what it may return.  HashMap::into_values yields the merged
\* values in an unspecified order and sort_by is stable, so every order of
\* the values with non-increasing score is a possible return value.
Aggregate(results, blocklist) ==
    { out \in Perms(MergeAll(<< >>, results, blocklist)) :
        \A i \in 1..(Len(out) - 1) : out[i].score >= out[i + 1].score }

(***************************************************************************)
(* The adapters (SearchEngine::search) as the registry sees them: when a   *)
(* call returns Ok it returns this list (scores as set by the adapter).    *)
(***************************************************************************)
SearchResult(url, title, engine, score) ==
    [url |-> url, title |-> title, content |-> Text(<< "Content" >>),
     engines |-> << engine >>, score |-> score, metadata |-> {}]

AdapterResults(e) ==
    CASE e = "e1" ->
           << SearchResult(Url(<<"example", "com">>, "", <<"utm_source">>, FALSE),
                           "Example", "e1", 12),
              SearchResult(Url(<<"one", "org">>, "/a", << >>, FALSE),
                           "One", "e1", 12) >>
      [] e = "e2" ->
           << SearchResult(Url(<<"pics", "net">>, "/p", << >>, FALSE),
                           "Pics", "e2", 12),
              SearchResult(Url(<<"example", "com">>, "/", << >>, TRUE),
                           "Example", "e2", 12) >>
      [] e = "e3" ->
           << SearchResult(Url(<<"three", "org">>, "/", << >>, FALSE),
                           "Three", "e3", 12),
              SearchResult(UrlString("https", <<"Example", "COM">>, "/", FALSE, << >>,
                                     FALSE),
                           "EXAMPLE", "e3", 12) >>

\* what a call of the adapter may return inside Ok: its results, or none
AdapterReturns(e) == { AdapterResults(e), << >> }

\* mutant of ShapeScores: the adapter's own scores are kept
ShapeScoresKeep(results, weight) == results

\* `res.score = config.weight / (index as f64 + 1.0)` for every result
ShapeScores(results, weight) ==
    [i \in 1..Len(results) |-> [results[i] EXCEPT !.score = weight \div i]]

(***************************************************************************)
(* registry.rs: EngineRegistry::search.                                    *)
(*                                                                         *)
(* A slot holds one search() call; a slot whose call has returned is used  *)
(* again by the next call.  task[<<s, e>>] is the task search() call s     *)
(* spawned for engine e:                                                   *)
(*   pc   "none"     no task (engine not selected, or slot never used)     *)
(*        "check"    spawned, before the breaker block (lines 85-91)       *)
(*        "throttle" admitted, before the throttle block (lines 94-114)    *)
(*        "wait"     past the throttle block: sleeping until `slot`, or    *)
(*                   about to call the adapter (lines 116-122)             *)
(*        "inflight" inside timeout(.., engine.search(..)) since `t0`      *)
(*        "done"     returned its Vec;  "panicked"  ended by a panic       *)
(*   adm  how check() answered: "closed", "probe" (Open -> HalfOpen),      *)
(*        "rejected";  res  the classified outcome;  out  the Vec returned *)
(*   slot the value this task wrote to last_request                        *)
(*   slept  sleep_duration was Some(d): the task had to sleep              *)
(*   batch  the task was waiting at "check" when a probe was admitted      *)
(***************************************************************************)
Slots == 1..MaxSlots
TaskIds == Slots \X Engines

NoTask ==
    [pc |-> "none", adm |-> "-", slot |-> None, t0 |-> None, res |-> "-",
     out |-> << >>, slept |-> FALSE, batch |-> FALSE]

Spawned == [NoTask EXCEPT !.pc = "check"]

IdleSearch == [phase |-> "idle", query |-> << >>, raw |-> << >>, ret |-> << >>]

\* mutant of CategoryMatch: every query tag must be declared by the engine
CategoryMatchAll(query_categories, categories) ==
    \A i \in 1..Len(query_categories) :
        \E j \in 1..Len(categories) : categories[j] = query_categories[i]

\* `query_categories.iter().any(|c| entry.categories.contains(c))`
CategoryMatch(query_categories, categories) ==
    \E i \in 1..Len(query_categories) :
        \E j \in 1..Len(categories) : categories[j] = query_categories[i]

\* mutant of Selected: the enabled flag is not consulted
SelectedIgnoringEnabled(categories, e) ==
    CategoryMatch(GetCategories(categories), EngineCategories(e))

\* the two `continue` tests at the head of the loop over self.engines
Selected(categories, e) ==
    /\ EngineConfig(e).enabled
    /\ CategoryMatch(GetCategories(categories), EngineCategories(e))

\* mutant of Reserve: a waiting caller records the instant of its arrival
ReserveArrival(last, t, throttle) ==
    IF last # None
    THEN LET target == last[1] + throttle IN
         IF target > t
         THEN [wait |-> Some(target - t), new_last |-> t]
         ELSE [wait |-> None, new_last |-> t]
    ELSE [wait |-> None, new_last |-> t]

\* mutant of Reserve: an unset last_request is taken as "just dispatched"
ReserveNoneWaits(last, t, throttle) ==
    IF last # None
    THEN LET target == last[1] + throttle IN
         IF target > t
         THEN [wait |-> Some(target - t), new_last |-> target]
         ELSE [wait |-> None, new_last |-> t]
    ELSE [wait |-> Some(throttle), new_last |-> t + throttle]

\* the throttle block: (wait, new_last) from *last and Instant::now()
Reserve(last, t, throttle) ==
    IF last # None
    THEN LET target == last[1] + throttle IN
         IF target > t
         THEN [wait |-> Some(target - t), new_last |-> target]
         ELSE [wait |-> None, new_last |-> t]
    ELSE [wait |-> None, new_last |-> t]

\* mutant of OnJoin: a JoinError ends search() with the error
OnJoinPropagate(sr, joined) ==
    IF joined.ok
    THEN [sr EXCEPT !.raw = @ \o joined.results]
    ELSE [sr EXCEPT !.phase = "failed"]

\* mutant of OnJoin: a JoinError discards what was harvested so far
OnJoinDiscard(sr, joined) ==
    IF joined.ok
    THEN [sr EXCEPT !.raw = @ \o joined.results]
    ELSE [sr EXCEPT !.raw = << >>]

\* one turn of `while let Some(res) = join_set.join_next().await`
OnJoin(sr, joined) ==
    IF joined.ok
    THEN [sr EXCEPT !.raw = @ \o joined.results]
    ELSE sr

JoinOk(results) == [ok |-> TRUE, results |-> results]
JoinError == [ok |-> FALSE, results |-> << >>]

\* search(): the loop over self.engines spawning one task per selected engine
StartSearch(s, categories) ==
    /\ srch[s].phase \in {"idle", "returned"}
    /\ srch' = [srch EXCEPT ![s] = [IdleSearch EXCEPT !.phase = "running",
                                                       !.query = categories]]
    /\ task' = [x \in TaskIds |->
                  IF x[1] = s
                  THEN IF Selected(categories, x[2]) THEN Spawned ELSE NoTask
                  ELSE task[x]]
    /\ UNCHANGED << now, bvars, config, brk, last_request >>

\* the breaker block of the task: lock, check(), early return when refused
TaskCheck(s, e) ==
    LET r == Check(brk[e], now)
        probe == r.ret /\ brk[e].state = "Open"
        me == [task[<<s, e>>] EXCEPT
                 !.adm = IF ~r.ret THEN "rejected"
                         ELSE IF probe THEN "probe" ELSE "closed",
                 !.pc = IF ~r.ret THEN "done"
                        ELSE IF EngineConfig(e).throttle > 0 THEN "throttle"
                        ELSE "wait",
                 !.batch = (probe \/ @)]
    IN
    /\ task[<<s, e>>].pc = "check"
    /\ brk' = [brk EXCEPT ![e] = r.cb]
    /\ task' = [x \in TaskIds |->
                  IF x = <<s, e>> THEN me
                  ELSE IF x[2] = e /\ probe
                       THEN [task[x] EXCEPT !.batch = (task[x].pc = "check")]
                       ELSE task[x]]
    /\ srch' = IF r.ret THEN srch
               ELSE [srch EXCEPT ![s] = OnJoin(@, JoinOk(<< >>))]
    /\ UNCHANGED << now, bvars, config, last_request >>

\* the throttle block: lock last_request, reserve, unlock
TaskThrottle(s, e) ==
    LET r == Reserve(last_request[e], now, EngineConfig(e).throttle) IN
    /\ task[<<s, e>>].pc = "throttle"
    /\ last_request' = [last_request EXCEPT ![e] = Some(r.new_last)]
    /\ task' = [task EXCEPT ![<<s, e>>].pc = "wait",
                            ![<<s, e>>].slot = Some(r.new_last),
                            ![<<s, e>>].slept = (r.wait # None)]
    /\ UNCHANGED << now, bvars, config, brk, srch >>

\* the sleep, if any, is over and engine.search is called under the timeout
TaskInvoke(s, e) ==
    /\ task[<<s, e>>].pc = "wait"
    /\ task[<<s, e>>].slot # None => now >= task[<<s, e>>].slot[1]
    /\ task' = [task EXCEPT ![<<s, e>>].pc = "inflight",
                            ![<<s, e>>].t0 = Some(now)]
    /\ UNCHANGED << now, bvars, config, brk, last_request, srch >>

\* mutant of Finish: a failed dispatch empties what was harvested so far
FinishFailureWipes(s, e, res, out) ==
    /\ task' = [task EXCEPT ![<<s, e>>].pc = "done",
                            ![<<s, e>>].res = res,
                            ![<<s, e>>].out = out,
                            ![<<s, e>>].slot = None,
                            ![<<s, e>>].t0 = None]
    /\ srch' = [srch EXCEPT ![s].raw = IF res = "ok" THEN @ \o out ELSE << >>]

\* a task ends with the Vec `out`; join_next hands it to the harvester
Finish(s, e, res, out) ==
    /\ task' = [task EXCEPT ![<<s, e>>].pc = "done",
                            ![<<s, e>>].res = res,
                            ![<<s, e>>].out = out,
                            ![<<s, e>>].slot = None,
                            ![<<s, e>>].t0 = None]
    /\ srch' = [srch EXCEPT ![s] = OnJoin(@, JoinOk(out))]

\* mutant of AdapterOk: an Ok without results is reported as a failure
AdapterOkEmptyFails(s, e) ==
    /\ task[<<s, e>>].pc = "inflight"
    /\ \E results \in AdapterReturns(e) :
          /\ brk' = [brk EXCEPT ![e] = IF results = << >>
                                       THEN ReportFailure(@, now)
                                       ELSE ReportSuccess(@)]
          /\ Finish(s, e, "ok", ShapeScores(results, EngineConfig(e).weight))
    /\ UNCHANGED << now, bvars, config, last_request >>

\* the adapter returned Ok(results)
AdapterOk(s, e) ==
    /\ task[<<s, e>>].pc = "inflight"
    /\ brk' = [brk EXCEPT ![e] = ReportSuccess(@)]
    /\ \E results \in AdapterReturns(e) :
          Finish(s, e, "ok", ShapeScores(results, EngineConfig(e).weight))
    /\ UNCHANGED << now, bvars, config, last_request >>

\* the adapter returned Err(e)
AdapterErr(s, e) ==
    /\ task[<<s, e>>].pc = "inflight"
    /\ brk' = [brk EXCEPT ![e] = ReportFailure(@, now)]
    /\ Finish(s, e, "err", << >>)
    /\ UNCHANGED << now, bvars, config, last_request >>

\* mutant of AdapterTimeout: the timeout also wraps the throttle sleep, its
\* clock running from the reservation
AdapterTimeoutWrapsThrottle(s, e) ==
    /\ \/ /\ task[<<s, e>>].pc = "inflight"
          /\ now - task[<<s, e>>].t0[1] >= EngineConfig(e).timeout
       \/ /\ task[<<s, e>>].pc = "wait"
          /\ task[<<s, e>>].slot # None
          /\ now >= task[<<s, e>>].slot[1] - EngineConfig(e).throttle
                        + EngineConfig(e).timeout
    /\ brk' = [brk EXCEPT ![e] = ReportFailure(@, now)]
    /\ Finish(s, e, "timeout", << >>)
    /\ UNCHANGED << now, bvars, config, last_request >>

\* tokio::time::timeout returned Err(Elapsed)
AdapterTimeout(s, e) ==
    /\ task[<<s, e>>].pc = "inflight"
    /\ now - task[<<s, e>>].t0[1] >= EngineConfig(e).timeout
    /\ brk' = [brk EXCEPT ![e] = ReportFailure(@, now)]
    /\ Finish(s, e, "timeout", << >>)
    /\ UNCHANGED << now, bvars, config, last_request >>

\* the adapter call panicked: the task ends with a JoinError
AdapterPanic(s, e) ==
    /\ task[<<s, e>>].pc = "inflight"
    /\ task' = [task EXCEPT ![<<s, e>>].pc = "panicked",
                            ![<<s, e>>].res = "panic",
                            ![<<s, e>>].slot = None,
                            ![<<s, e>>].t0 = None]
    /\ srch' = [srch EXCEPT ![s] = OnJoin(@, JoinError)]
    /\ UNCHANGED << now, bvars, config, brk, last_request >>

\* mutant of Return: aggregate is called without draining the JoinSet
ReturnWithoutDraining(s) ==
    /\ srch[s].phase = "running"
    /\ \E out \in Aggregate(srch[s].raw, << >>) :
          srch' = [srch EXCEPT ![s].phase = "returned", ![s].ret = out]
    /\ UNCHANGED << now, bvars, config, brk, last_request, task >>

\* join_next() returned None: aggregate(raw_results) is returned
Return(s) ==
    /\ srch[s].phase = "running"
    /\ \A e \in Engines : task[<<s, e>>].pc \in {"none", "done", "panicked"}
    /\ \E out \in Aggregate(srch[s].raw, << >>) :
          srch' = [srch EXCEPT ![s].phase = "returned", ![s].ret = out]
    /\ UNCHANGED << now, bvars, config, brk, last_request, task >>

\* no function is being called on its own
NoPureCall ==
    [fn |-> "-", results |-> << >>, blocklist |-> << >>, weight |-> 0,
     done |-> FALSE, out |-> << >>]

InitRegistry(settings) ==
    /\ config = settings
    /\ brk = [e \in Engines |->
                NewBreaker(EngineConfig(e).failure_threshold, EngineConfig(e).cooldown)]
    /\ last_request = [e \in Engines |-> None]
    /\ task = [x \in TaskIds |-> NoTask]
    /\ srch = [s \in Slots |-> IdleSearch]
    /\ obs = [searches |-> 0, calls |-> 0, calls0 |-> 0, late |-> FALSE, probes |-> 0]
    /\ call = NoPureCall

(***************************************************************************)
(* The stand-alone breaker driven by arbitrary call sequences.             *)
(* cbHist records the last call: its name, the breaker before it, the      *)
(* clock at the call, check()'s return value, the number of consecutive    *)
(* report_failure() calls (capped at the threshold) and the number of      *)
(* check() calls that returned true since last_failure was last written.   *)
(***************************************************************************)
Min(a, b) == IF a < b THEN a ELSE b
Max(a, b) == IF a > b THEN a ELSE b

NoCall(b) ==
    [op |-> "new", pre |-> b, at |-> 0, ret |-> TRUE, consec |-> 0, admits |-> 0]

InitBreaker ==
    /\ now = 0
    /\ \E th \in 0..MaxThreshold, cd \in 0..MaxCooldown :
          cb = NewBreaker(th, cd)
    /\ cbHist = NoCall(cb)
    /\ InitRegistry([e \in Engines |-> Settings(e)])

\* time passes
Tick ==
    /\ now < MaxTime
    /\ now' = now + 1
    /\ UNCHANGED << bvars, rvars >>

BCheck ==
    LET r == Check(cb, now) IN
    /\ cb' = r.cb
    /\ cbHist' = [cbHist EXCEPT !.op = "check", !.pre = cb, !.at = now,
                                !.ret = r.ret,
                                !.admits = IF r.ret /\ cb.state # "Closed"
                                           THEN @ + 1 ELSE @]
    /\ UNCHANGED << now, rvars >>

BReportSuccess ==
    /\ cb' = ReportSuccess(cb)
    /\ cbHist' = [cbHist EXCEPT !.op = "report_success", !.pre = cb, !.at = now,
                                !.ret = TRUE, !.consec = 0,
                                !.admits = IF cb.state = "HalfOpen" THEN 0 ELSE @]
    /\ UNCHANGED << now, rvars >>

BReportFailure ==
    /\ cb' = ReportFailure(cb, now)
    /\ cbHist' = [cbHist EXCEPT !.op = "report_failure", !.pre = cb, !.at = now,
                                !.ret = TRUE,
                                !.consec = Min(@ + 1, cb.failure_threshold),
                                !.admits = 0]
    /\ UNCHANGED << now, rvars >>

NextBreaker == Tick \/ BCheck \/ BReportSuccess \/ BReportFailure

SpecBreaker == InitBreaker /\ [][NextBreaker]_vars

(***************************************************************************)
(* One search() call at a time, fanned out over all the engines, with      *)
(* every query of Queries and every adapter outcome.                       *)
(***************************************************************************)
Init ==
    /\ now = 0
    /\ cb = NewBreaker(1, 1)
    /\ cbHist = NoCall(cb)
    /\ InitRegistry([e \in Engines |-> Settings(e)])

Next ==
    \/ Tick
    \/ \E q \in Queries : StartSearch(1, q) /\ UNCHANGED << obs, call >>
    \/ \E e \in Engines : TaskCheck(1, e) /\ UNCHANGED << obs, call >>
    \/ \E e \in Engines : TaskThrottle(1, e) /\ UNCHANGED << obs, call >>
    \/ \E e \in Engines : TaskInvoke(1, e) /\ UNCHANGED << obs, call >>
    \/ \E e \in Engines : AdapterOk(1, e) /\ UNCHANGED << obs, call >>
    \/ \E e \in Engines : AdapterErr(1, e) /\ UNCHANGED << obs, call >>
    \/ \E e \in Engines : AdapterTimeout(1, e) /\ UNCHANGED << obs, call >>
    \/ \E e \in Engines : AdapterPanic(1, e) /\ UNCHANGED << obs, call >>
    \/ Return(1) /\ UNCHANGED << obs, call >>

Spec == Init /\ [][Next]_vars

(***************************************************************************)
(* Concurrent search() calls (one per slot) dispatching to one engine:     *)
(* the default query reaches only e1, the engine with a throttle.          *)
(***************************************************************************)
NextConc ==
    \/ Tick
    \/ \E s \in Slots : StartSearch(s, << >>) /\ UNCHANGED << obs, call >>
    \/ \E s \in Slots : TaskCheck(s, "e1") /\ UNCHANGED << obs, call >>
    \/ \E s \in Slots : TaskThrottle(s, "e1") /\ UNCHANGED << obs, call >>
    \/ \E s \in Slots : TaskInvoke(s, "e1") /\ UNCHANGED << obs, call >>
    \/ \E s \in Slots : AdapterOk(s, "e1") /\ UNCHANGED << obs, call >>
    \/ \E s \in Slots : AdapterErr(s, "e1") /\ UNCHANGED << obs, call >>
    \/ \E s \in Slots : AdapterTimeout(s, "e1") /\ UNCHANGED << obs, call >>
    \/ \E s \in Slots : AdapterPanic(s, "e1") /\ UNCHANGED << obs, call >>
    \/ \E s \in Slots : Return(s) /\ UNCHANGED << obs, call >>

\* e1 is registered with any throttle in 1..MaxThrottle and any cooldown
InitConc ==
    /\ now = 0
    /\ cb = NewBreaker(1, 1)
    /\ cbHist = NoCall(cb)
    /\ \E th \in 1..MaxThrottle, cd \in 0..MaxCooldown :
          InitRegistry([e \in Engines |->
              IF e = "e1"
              THEN [Settings(e) EXCEPT !.throttle = th, !.cooldown = cd]
              ELSE Settings(e)])

SpecConc == InitConc /\ [][NextConc]_vars

(***************************************************************************)
(* test_circuit_breaker_integration: sequential search() calls against     *)
(* one engine whose adapter always fails; obs.calls is the mock adapter's  *)
(* call_count, obs.searches the number of search() calls issued.           *)
(***************************************************************************)
SeqStart ==
    /\ obs.searches < MaxSeqSearches
    /\ StartSearch(1, << >>)
    /\ obs' = [obs EXCEPT !.searches = @ + 1, !.calls0 = obs.calls, !.late = FALSE]
    /\ UNCHANGED call

\* the dispatch runs its breaker check: `late` notes whether, at this
\* instant, cooldown has elapsed since the recorded last_failure
SeqCheck ==
    LET lf == brk["e1"].last_failure
        late == lf # None /\ now - lf[1] >= EngineConfig("e1").cooldown
    IN
    /\ TaskCheck(1, "e1")
    /\ obs' = [obs EXCEPT !.late = late,
                          !.probes = IF late THEN @ + 1 ELSE @]
    /\ UNCHANGED call

SeqInvoke ==
    /\ TaskInvoke(1, "e1")
    /\ obs' = [obs EXCEPT !.calls = @ + 1]
    /\ UNCHANGED call

NextSeq ==
    \/ Tick
    \/ SeqStart
    \/ SeqCheck
    \/ TaskThrottle(1, "e1") /\ UNCHANGED << obs, call >>
    \/ SeqInvoke
    \/ AdapterErr(1, "e1") /\ UNCHANGED << obs, call >>
    \/ AdapterTimeout(1, "e1") /\ UNCHANGED << obs, call >>
    \/ Return(1) /\ UNCHANGED << obs, call >>

\* e1 is registered with any failure_threshold >= 1, any cooldown and any
\* throttle
InitSeq ==
    /\ now = 0
    /\ cb = NewBreaker(1, 1)
    /\ cbHist = NoCall(cb)
    /\ \E n \in 1..MaxThreshold, cd \in 0..MaxCooldown, th \in 0..MaxThrottle :
          InitRegistry([e \in Engines |->
              IF e = "e1"
              THEN [Settings(e) EXCEPT !.failure_threshold = n, !.cooldown = cd,
                                       !.throttle = th]
              ELSE Settings(e)])

SpecSeq == InitSeq /\ [][NextSeq]_vars

(***************************************************************************)
(* Claims about the stand-alone breaker (checked under SpecBreaker).       *)
(***************************************************************************)

\* C1 (breaker gating): once failure_threshold consecutive report_failure()
\* calls have been made the breaker is Open; a check() made in Open while
\* now - last_failure < cooldown returns false and changes nothing; a check()
\* made in Open once now - last_failure >= cooldown returns true and moves the
\* breaker to HalfOpen; every check() made in HalfOpen returns false; so
\* between two writes of last_failure check() returns true exactly once while
\* the breaker is HalfOpen and not at all while it is Open.
C1_BreakerGating ==
    LET p == cbHist.pre IN
    /\ (cbHist.op = "report_failure" /\ cbHist.consec >= cb.failure_threshold)
          => cb.state = "Open"
    /\ (cbHist.op = "check" /\ p.state = "Open")
          => /\ p.last_failure # None
             /\ IF cbHist.at - p.last_failure[1] < p.cooldown
                THEN cbHist.ret = FALSE /\ cb = p
                ELSE cbHist.ret = TRUE /\ cb = [p EXCEPT !.state = "HalfOpen"]
    /\ (cbHist.op = "check" /\ p.state = "HalfOpen")
          => cbHist.ret = FALSE /\ cb = p
    /\ cb.state = "HalfOpen" => cbHist.admits = 1
    /\ cb.state = "Open" => cbHist.admits = 0

\* C1 witness: a breaker with threshold >= 2 and cooldown >= 1 was tripped by
\* threshold consecutive failures, admitted its probe after the cooldown and
\* has just rejected a further check().
C1_Witness ==
    /\ cbHist.op = "check" /\ cbHist.pre.state = "HalfOpen"
    /\ cbHist.ret = FALSE /\ cbHist.admits = 1
    /\ cb.failure_threshold >= 2 /\ cb.cooldown >= 1
    /\ cbHist.consec = cb.failure_threshold
    /\ cb.failures = cb.failure_threshold

\* C2 (transition table of reported outcomes): Closed + success resets
\* failures and stays Closed; Closed + failure adds one to failures and opens
\* (stamping last_failure with the current instant) exactly when the new count
\* reaches failure_threshold; HalfOpen + success closes with failures = 0;
\* HalfOpen + failure opens and stamps last_failure with the current instant,
\* and the next probe is admitted no sooner than cooldown after that stamp.
C2_TransitionTable ==
    LET p == cbHist.pre IN
    /\ (cbHist.op = "report_success" /\ p.state = "Closed")
          => cb = [p EXCEPT !.failures = 0]
    /\ (cbHist.op = "report_failure" /\ p.state = "Closed")
          => /\ cb.failures = p.failures + 1
             /\ IF p.failures + 1 >= p.failure_threshold
                THEN cb.state = "Open" /\ cb.last_failure = Some(cbHist.at)
                ELSE cb.state = "Closed" /\ cb.last_failure = p.last_failure
    /\ (cbHist.op = "report_success" /\ p.state = "HalfOpen")
          => cb.state = "Closed" /\ cb.failures = 0
    /\ (cbHist.op = "report_failure" /\ p.state = "HalfOpen")
          => /\ cb.state = "Open" /\ cb.last_failure = Some(cbHist.at)
             /\ cb.failures = p.failures
    /\ (cbHist.op = "check" /\ cbHist.ret /\ p.state = "Open")
          => cbHist.at >= p.last_failure[1] + p.cooldown

\* C2 witness: a probe admitted at a later instant than the trip has failed;
\* the breaker is Open again with a fresh stamp.
C2_Witness ==
    /\ cbHist.op = "report_failure" /\ cbHist.pre.state = "HalfOpen"
    /\ cb.state = "Open" /\ cb.last_failure = Some(now)
    /\ cbHist.pre.last_failure # None /\ cbHist.pre.last_failure[1] < now
    /\ cb.cooldown >= 1

(***************************************************************************)
(* Claims about sequential searches against a failing engine (SpecSeq).    *)
(***************************************************************************)

\* C3 (breaker trip and recovery through search()): with N the engine's
\* failure_threshold, whenever a search() call has returned, the adapter was
\* invoked once by it if it is one of the first N searches or if its breaker
\* check ran with the cooldown elapsed since last_failure (the half-open
\* probe), and not at all otherwise; so the invocation count is k after the
\* k-th search (k <= N) and stays N until the first search after a cooldown.
C3_SequentialTrip ==
    LET N == EngineConfig("e1").failure_threshold IN
    srch[1].phase = "returned" =>
        /\ obs.searches <= N => obs.calls = obs.searches
        /\ obs.calls = obs.calls0 +
                       (IF obs.searches <= N \/ obs.late THEN 1 ELSE 0)
        /\ obs.probes = 0 => obs.calls = Min(obs.searches, N)
        /\ obs.calls = Min(obs.searches, N) + obs.probes

\* C3 witness: the scenario of test_circuit_breaker_integration: N failing
\* searches, one search skipped by the open breaker, then the probe.
C3_Witness ==
    LET N == EngineConfig("e1").failure_threshold IN
    /\ srch[1].phase = "returned"
    /\ obs.searches = N + 2 /\ obs.calls = N + 1 /\ obs.calls0 = N
    /\ obs.probes = 1 /\ obs.late
    /\ brk["e1"].state = "Open"

(***************************************************************************)
(* Claims about concurrent dispatches to one engine (SpecConc).            *)
(***************************************************************************)
\* the task has called the adapter
Invoked(t) == t.pc = "inflight" \/ t.res \in {"ok", "err", "timeout", "panic"}

\* the dispatches to e that were waiting at the breaker check when the last
\* probe was admitted (the admitted one included) and have called the adapter
BatchInvoked(e) == { s \in Slots : task[<<s, e>>].batch /\ Invoked(task[<<s, e>>]) }

\* C4 as stated (single probe under concurrency): of the dispatches that were
\* pending together when the breaker was Open with its cooldown elapsed,
\* exactly one invokes the adapter, in every interleaving.
C4_OneInvocationPerBatch ==
    \A e \in Engines :
        config[e].cooldown > 0 => Cardinality(BatchInvoked(e)) <= 1

\* C4 as amended: for as long as the breaker stays HalfOpen (the probe's
\* outcome is not yet reported), of the dispatches pending when the probe was
\* admitted only the probe has invoked the adapter, and every dispatch that
\* check() refused has ended with no results and without calling the adapter.
C4_OneProbeWhileHalfOpen ==
    \A e \in Engines :
        /\ brk[e].state = "HalfOpen" =>
              /\ Cardinality(BatchInvoked(e)) <= 1
              /\ \A s \in BatchInvoked(e) : task[<<s, e>>].adm = "probe"
        /\ \A s \in Slots :
              task[<<s, e>>].adm = "rejected" =>
                  /\ task[<<s, e>>].pc = "done"
                  /\ task[<<s, e>>].out = << >>
                  /\ ~Invoked(task[<<s, e>>])

\* C4 witness: two dispatches were pending on the open breaker after its
\* cooldown; one is the probe, in flight, the other was refused.
C4_Witness ==
    \E s1, s2 \in Slots :
        /\ brk["e1"].state = "HalfOpen" /\ config["e1"].cooldown > 0
        /\ task[<<s1, "e1">>].batch /\ task[<<s1, "e1">>].adm = "probe"
        /\ task[<<s1, "e1">>].pc = "inflight"
        /\ task[<<s2, "e1">>].batch /\ task[<<s2, "e1">>].adm = "rejected"
        /\ srch[s2].phase = "returned" /\ srch[s2].ret = << >>

\* distance of two instants
Dist(a, b) == IF a >= b THEN a - b ELSE b - a

\* C10 as stated (throttle pairwise spacing): the instants at which two
\* dispatches to a throttled engine invoke the adapter are at least
\* throttle apart.
C10_InvocationSpacing ==
    \A e \in Engines : \A s1, s2 \in Slots :
        (/\ s1 # s2
         /\ config[e].throttle > 0
         /\ task[<<s1, e>>].pc = "inflight"
         /\ task[<<s2, e>>].pc = "inflight")
        => Dist(task[<<s1, e>>].t0[1], task[<<s2, e>>].t0[1]) >= config[e].throttle

\* the slots reserved by the dispatches that are past the throttle block are
\* pairwise throttle apart, none is later than last_request, and no adapter
\* call was made before its slot
SlotSpacing ==
    \A e \in Engines : config[e].throttle > 0 =>
        \A s1 \in Slots :
            LET a == task[<<s1, e>>] IN
            a.slot # None =>
                /\ last_request[e] # None /\ a.slot[1] <= last_request[e][1]
                /\ a.t0 # None => a.t0[1] >= a.slot[1]
                /\ \A s2 \in Slots \ {s1} :
                      task[<<s2, e>>].slot # None =>
                          Dist(a.slot[1], task[<<s2, e>>].slot[1]) >= config[e].throttle

\* every reservation moves last_request forward by at least throttle
ReservationAdvances ==
    \A e \in Engines :
        (last_request'[e] # last_request[e] /\ last_request[e] # None)
        => last_request'[e][1] >= last_request[e][1] + config[e].throttle

\* C10 as amended: the slots the dispatches reserve in last_request are
\* pairwise at least throttle apart (each reservation writes a value at
\* least throttle after the previous one), and a dispatch invokes the adapter
\* no earlier than its own slot.
C10_SlotSpacing == []SlotSpacing /\ [][ReservationAdvances]_vars

\* C10 witness: two dispatches hold slots exactly throttle apart; the first
\* has invoked the adapter, the second is still sleeping.
C10_Witness ==
    \E s1, s2 \in Slots :
        LET a == task[<<s1, "e1">>]
            b == task[<<s2, "e1">>]
        IN /\ a.pc = "inflight" /\ b.pc = "wait"
           /\ a.slot # None /\ b.slot # None
           /\ b.slot[1] = a.slot[1] + config["e1"].throttle
           /\ now < b.slot[1]

(***************************************************************************)
(* Claims about one search() call fanned out over the engines (Spec).      *)
(***************************************************************************)
\* the engines whose dispatch of the current call ended with the outcome res
EnginesWith(res) == { e \in Engines : task[<<1, e>>].res = res }

\* every task of the call has ended
AllFinished ==
    \A e \in Engines : task[<<1, e>>].pc \in {"none", "done", "panicked"}

\* the engine ids found in a sequence of results
EnginesIn(results) ==
    UNION { { results[i].engines[j] : j \in 1..Len(results[i].engines) } :
                i \in 1..Len(results) }

\* C5 (search() never fails): the call never ends with an error, it can
\* always return once its tasks have ended, and when no selected engine
\* returned Ok (all failed, timed out, were refused, or none was selected)
\* the returned sequence is empty.
C5_NeverAnError ==
    /\ srch[1].phase # "failed"
    /\ (srch[1].phase = "running" /\ AllFinished)
          => Aggregate(srch[1].raw, << >>) # {}
    /\ (srch[1].phase = "returned" /\ EnginesWith("ok") = {})
          => srch[1].ret = << >>

\* C5 witness: a call whose two engines failed, one with Err and one by its
\* deadline, has returned the empty sequence.
C5_Witness ==
    /\ srch[1].phase = "returned" /\ srch[1].ret = << >>
    /\ task[<<1, "e1">>].res = "err" /\ task[<<1, "e2">>].res = "timeout"

\* the results the engines of set E return, as <<engine, index>> pairs
ResultsOf(E) == { <<e, i>> \in E \X (1..2) : i <= Len(task[<<1, e>>].out) }

\* the URL a result is merged under: tracking parameters and fragment
\* dropped, "/" for a missing path
KeyOf(x) ==
    LET u == AdapterResults(x[1])[x[2]].url IN
    [u EXCEPT !.frag = FALSE,
              !.path = IF @ = "" THEN "/" ELSE @,
              !.params = SelectSeq(@, LAMBDA k : k \notin TrackingParams),
              !.qmark = \E i \in 1..Len(u.params) : u.params[i] \notin TrackingParams]

RECURSIVE SumShaped(_)
\* the sum of weight / (index + 1) over a set of <<engine, index>> pairs
SumShaped(S) ==
    IF S = {} THEN 0
    ELSE LET x == CHOOSE y \in S : TRUE
         IN (config[x[1]].weight \div x[2]) + SumShaped(S \ {x})

\* `out` is the merge of exactly the shaped results of the engines of E
MergeOfExactly(out, E) ==
    /\ { out[i].url : i \in 1..Len(out) } = { KeyOf(x) : x \in ResultsOf(E) }
    /\ Len(out) = Cardinality({ KeyOf(x) : x \in ResultsOf(E) })
    /\ \A i \in 1..Len(out) :
          LET same == { x \in ResultsOf(E) : KeyOf(x) = out[i].url } IN
          /\ out[i].score = SumShaped(same)
          /\ { out[i].engines[j] : j \in 1..Len(out[i].engines) }
                = { x[1] : x \in same }

\* C6 (partial-failure isolation): whatever subset of the selected engines
\* returned Err or ran into its deadline, the sequence search() returns is
\* the merge of exactly the shaped results of the engines that returned Ok:
\* one entry per canonical URL of theirs, each with the sum of its
\* contributors' shaped scores and with exactly its contributors as engines.
C6_PartialFailureIsolation ==
    srch[1].phase = "returned" => MergeOfExactly(srch[1].ret, EnginesWith("ok"))

\* C6 witness: e1 returned Ok and e2 failed; the call returned e1's two
\* results.
C6_Witness ==
    /\ srch[1].phase = "returned"
    /\ task[<<1, "e1">>].res = "ok" /\ task[<<1, "e2">>].res \in {"err", "timeout"}
    /\ Len(srch[1].ret) = 2
    /\ \A i \in 1..2 : srch[1].ret[i].engines = << "e1" >>

\* seq occurs in raw as a contiguous run
OccursIn(seq, raw) ==
    \E k \in 0..(Len(raw) - Len(seq)) : SubSeq(raw, k + 1, k + Len(seq)) = seq

\* C7 (a panic does not abort the batch): when a task of the call has
\* panicked, the call still does not fail, the shaped results of every task
\* that returned Ok are in raw_results (the aggregator's input), and once all
\* tasks have ended the call can return.
C7_PanicIsolated ==
    EnginesWith("panic") # {} =>
        /\ srch[1].phase # "failed"
        /\ \A e \in EnginesWith("ok") :
              OccursIn([i \in 1..Len(task[<<1, e>>].out) |->
                          [AdapterResults(e)[i] EXCEPT
                              !.score = config[e].weight \div i]],
                       srch[1].raw)
        /\ (srch[1].phase = "running" /\ AllFinished)
              => Aggregate(srch[1].raw, << >>) # {}
        /\ srch[1].phase = "returned"
              => { KeyOf(x) : x \in ResultsOf(EnginesWith("ok")) }
                    \subseteq { srch[1].ret[i].url : i \in 1..Len(srch[1].ret) }

\* C7 witness: e1's task panicked after e2's had returned Ok, and the call
\* returned e2's two results.
C7_Witness ==
    /\ srch[1].phase = "returned"
    /\ task[<<1, "e1">>].res = "panic" /\ task[<<1, "e2">>].res = "ok"
    /\ Len(srch[1].raw) = 2 /\ Len(srch[1].ret) = 2

\* the tags a query of Queries asks for
QueryTags(categories) ==
    CASE categories = << >> -> { General }
      [] categories = << "images" >> -> { Images }
      [] categories = << "general", ",", "images" >> -> { General, Images }
      [] OTHER -> {}

\* the tags engine e declares
DeclaredTags(e) == { EngineCategories(e)[i] : i \in 1..Len(EngineCategories(e)) }

\* C8 (selection predicate): an adapter is invoked only for an engine that
\* is enabled, declares a tag of the query and whose check() returned true
\* for this dispatch; an engine failing one of the three contributes no
\* result to raw_results or to the returned sequence.
C8_SelectionPredicate ==
    srch[1].phase \in {"running", "returned"} =>
        \A e \in Engines :
            LET t == task[<<1, e>>]
                chosen == /\ config[e].enabled
                          /\ QueryTags(srch[1].query) \cap DeclaredTags(e) # {}
            IN /\ Invoked(t) => chosen /\ t.adm \in {"closed", "probe"}
               /\ ~chosen => t.pc = "none"
               /\ (t.pc = "none" \/ t.adm = "rejected") =>
                     /\ ~Invoked(t)
                     /\ t.out = << >>
                     /\ e \notin EnginesIn(srch[1].raw)
                     /\ e \notin EnginesIn(srch[1].ret)

\* C8 witness: for the query "general,images" e1 was invoked and returned
\* Ok, e2 was refused by its breaker, the disabled e3 got no task; only e1's
\* results were returned.
C8_Witness ==
    /\ srch[1].phase = "returned"
    /\ srch[1].query = << "general", ",", "images" >>
    /\ task[<<1, "e1">>].res = "ok"
    /\ task[<<1, "e2">>].adm = "rejected"
    /\ task[<<1, "e3">>].pc = "none"
    /\ EnginesIn(srch[1].ret) = {"e1"}

\* the engines the current call has spawned a task for
Dispatched == { e \in Engines : task[<<1, e>>].pc # "none" }

\* C9 (category filter): among the enabled engines, the empty categories
\* string dispatches exactly to those declaring "general", "images" exactly
\* to those declaring "images", and "general,images" to every one declaring
\* at least one of the two.
C9_CategoryFilter ==
    LET declaring(tags) ==
            { e \in Engines : config[e].enabled /\ DeclaredTags(e) \cap tags # {} }
    IN srch[1].phase \in {"running", "returned"} =>
        /\ srch[1].query = << >> => Dispatched = declaring({ General })
        /\ srch[1].query = << "images" >> => Dispatched = declaring({ Images })
        /\ srch[1].query = << "general", ",", "images" >>
              => Dispatched = declaring({ General, Images })

\* C9 witness: the query "general,images" has dispatched to the general
\* engine and to the images engine.
C9_Witness ==
    /\ srch[1].phase = "running"
    /\ srch[1].query = << "general", ",", "images" >>
    /\ Dispatched = {"e1", "e2"}
    /\ task[<<1, "e1">>].pc = "inflight" /\ task[<<1, "e2">>].pc = "inflight"

(***************************************************************************)
(* Throttle and deadline of one dispatch (checked under Spec: e1 has       *)
(* throttle 2 and timeout 2, e2 has throttle 0 and timeout 1).             *)
(***************************************************************************)
\* the step in which the task of engine e passes the throttle block
PassesThrottle(e) ==
    task[<<1, e>>].pc = "throttle" /\ task'[<<1, e>>].pc = "wait"

\* what a pass through the throttle block reserves: the arrival instant when
\* last_request is unset or at least throttle old (the adapter may be called
\* at once), last_request + throttle when the dispatch arrives sooner
ThrottleStep ==
    \A e \in Engines :
        LET T == config[e].throttle
            last == last_request[e]
        IN PassesThrottle(e) =>
              /\ T > 0
              /\ (last = None \/ now >= last[1] + T)
                    => /\ task'[<<1, e>>].slot = Some(now)
                       /\ last_request'[e] = Some(now)
                       /\ ~task'[<<1, e>>].slept
              /\ (last # None /\ now < last[1] + T)
                    => /\ task'[<<1, e>>].slot = Some(last[1] + T)
                       /\ last_request'[e] = Some(last[1] + T)
                       /\ task'[<<1, e>>].slept

\* a dispatch calls the adapter no earlier than the instant it reserved, and
\* an engine with throttle 0 never has last_request written nor a dispatch
\* holding a reservation
ThrottleState ==
    \A e \in Engines :
        LET a == task[<<1, e>>] IN
        /\ (a.slot # None /\ a.t0 # None) => a.t0[1] >= a.slot[1]
        /\ config[e].throttle = 0 =>
              /\ last_request[e] = None
              /\ a.slot = None /\ ~a.slept
              /\ a.pc # "throttle"

\* C11 (throttle first dispatch and disablement): a dispatch that finds
\* last_request unset, or arrives at least throttle after the value in
\* last_request, reserves its arrival instant and is not delayed; a dispatch
\* arriving sooner is held until last_request + throttle; with throttle = 0
\* no dispatch is delayed and last_request is never written.
C11_ThrottleDelay == []ThrottleState /\ [][ThrottleStep]_vars

\* C11 witness: the second search reached e1 before last_request + throttle
\* and is held until instant 2, while e2 (throttle 0) is already in its
\* adapter call with last_request unset.
C11_Witness ==
    /\ now = 1
    /\ task[<<1, "e1">>].pc = "wait" /\ task[<<1, "e1">>].slot = Some(2)
    /\ task[<<1, "e1">>].slept /\ last_request["e1"] = Some(2)
    /\ task[<<1, "e2">>].pc = "inflight" /\ last_request["e2"] = None

\* the step in which the dispatch to engine e ends as deadline-exceeded
DeadlineExceeded(e) ==
    task[<<1, e>>].res # "timeout" /\ task'[<<1, e>>].res = "timeout"

\* one report_failure() at instant t, spelled out
OneFailureReported(b, b2, t) ==
    /\ b.state = "Closed" =>
          /\ b2.failures = b.failures + 1
          /\ b2.state = IF b.failures + 1 >= b.failure_threshold
                        THEN "Open" ELSE "Closed"
          /\ b2.last_failure = IF b.failures + 1 >= b.failure_threshold
                               THEN Some(t) ELSE b.last_failure
    /\ b.state # "Closed" =>
          /\ b2.state = "Open" /\ b2.failures = b.failures
          /\ b2.last_failure = Some(t)

\* a dispatch ends as deadline-exceeded only from inside the adapter call and
\* only when timeout has passed since the call began, which is not before
\* the instant the throttle made it wait for; the step reports one failure
\* to the engine's breaker, returns no results, adds nothing to raw_results
\* and leaves no adapter call in flight
DeadlineStep ==
    \A e \in Engines :
        LET a == task[<<1, e>>] IN
        DeadlineExceeded(e) =>
            /\ a.pc = "inflight"
            /\ now - a.t0[1] >= config[e].timeout
            /\ a.slot # None => now >= a.slot[1] + config[e].timeout
            /\ OneFailureReported(brk[e], brk'[e], now)
            /\ task'[<<1, e>>].pc = "done" /\ task'[<<1, e>>].out = << >>
            /\ task'[<<1, e>>].t0 = None
            /\ srch'[1].raw = srch[1].raw

\* C12 (deadline handling): a dispatch whose adapter call is cut off by the
\* timeout reports one failure to the engine's breaker, emits no results and
\* its adapter call is no longer in flight; the timeout runs from the
\* adapter's invocation, after the throttle wait, so a dispatch is never
\* deadline-exceeded while it waits in the throttle or earlier than timeout
\* after the instant it waited for.
C12_DeadlineHandling == [][DeadlineStep]_vars

\* C12 witness: the dispatch to e1 waited in the throttle until instant 2
\* and was cut off at instant 4 = 2 + timeout; the breaker counts the failure.
C12_Witness ==
    /\ now = 4
    /\ last_request["e1"] = Some(2) /\ task[<<1, "e1">>].slept
    /\ task[<<1, "e1">>].res = "timeout" /\ task[<<1, "e1">>].out = << >>
    /\ brk["e1"].failures >= 1

(***************************************************************************)
(* Score shaping on its own: lines 126-131 of search() applied to any list *)
(* an adapter may return, under any weight.                                *)
(* weight and score are f64.  The weights drawn are multiples of 60, for   *)
(* which weight / (index + 1) is an integer for every index the bounds     *)
(* allow, so the integer quotient below is the f64 quotient of the code.   *)
(***************************************************************************)
Weights == { -60, 0, 60, 120 }

\* results as adapters build them, with the scores they set themselves
ShapePool ==
    { SearchResult(Url(<<"one", "org">>, "/a", << >>, FALSE), "One", "e1", 1),
      SearchResult(Url(<<"pics", "net">>, "/p", << >>, FALSE), "Pics", "e1", 500),
      SearchResult(Url(<<"one", "org">>, "/a", << >>, TRUE), "Again", "e1", 0) }

\* the sequences of at most n elements of S
SeqsUpTo(S, n) == UNION { [1..k -> S] : k \in 0..n }

InitShape ==
    /\ now = 0
    /\ cb = NewBreaker(1, 1)
    /\ cbHist = NoCall(cb)
    /\ config = [e \in Engines |-> Settings(e)]
    /\ brk = [e \in Engines |->
                NewBreaker(EngineConfig(e).failure_threshold, EngineConfig(e).cooldown)]
    /\ last_request = [e \in Engines |-> None]
    /\ task = [x \in TaskIds |-> NoTask]
    /\ srch = [s \in Slots |-> IdleSearch]
    /\ obs = [searches |-> 0, calls |-> 0, calls0 |-> 0, late |-> FALSE, probes |-> 0]
    /\ \E results \in SeqsUpTo(ShapePool, MaxResults), weight \in Weights :
          call = [NoPureCall EXCEPT !.fn = "shape", !.results = results,
                                    !.weight = weight]

\* the Ok arm of the task: the adapter's list leaves with shaped scores
Shape ==
    /\ call.fn = "shape" /\ ~call.done
    /\ call' = [call EXCEPT !.done = TRUE,
                            !.out = ShapeScores(call.results, call.weight)]
    /\ UNCHANGED << now, bvars, config, brk, last_request, task, srch, obs >>

NextShape == Shape

SpecShape == InitShape /\ [][NextShape]_vars

\* C13 (score shaping): the list leaves the dispatch with the same results
\* in the same order, the i-th (0-indexed) carrying score = weight / (i + 1)
\* whatever score the adapter had set; so the first score is the weight and,
\* for weight > 0, the scores are strictly decreasing along the list.
C13_ScoreShaping ==
    call.done =>
        /\ Len(call.out) = Len(call.results)
        /\ \A k \in 1..Len(call.out) :
              /\ call.out[k].score * k = call.weight
              /\ [call.out[k] EXCEPT !.score = 0]
                    = [call.results[k] EXCEPT !.score = 0]
        /\ Len(call.out) >= 1 => call.out[1].score = call.weight
        /\ call.weight > 0 =>
              \A j, k \in 1..Len(call.out) :
                  j < k => call.out[j].score > call.out[k].score

\* C13 witness: three results whose adapter scores were 1, 500, 0 left with
\* 60, 30, 20 under weight 60.
C13_Witness ==
    /\ call.done /\ call.weight = 60
    /\ Len(call.results) = 3
    /\ call.results[1].score = 1 /\ call.results[2].score = 500
    /\ call.results[3].score = 0
    /\ call.out[1].score = 60 /\ call.out[2].score = 30 /\ call.out[3].score = 20

(***************************************************************************)
(* aggregate() on its own, on any list of at most MaxInputs results and    *)
(* any blocklist of Blocklists.  The inputs are results as the adapters    *)
(* build them (`engines: vec![self.id()]`, one engine id each) with finite *)
(* scores; a host is the sequence of the pieces of its text, so that a     *)
(* blocklist entry may match inside it.                                    *)
(***************************************************************************)
\* a string that Url::parse rejects
NotAUrl ==
    [UrlString("", << "site" >>, "", FALSE, << >>, FALSE) EXCEPT !.parse = FALSE]

\* another one, which differs from it in what a URL would lose: a tracking
\* parameter and a fragment
NotAUrlNoisy ==
    [NotAUrl EXCEPT !.qmark = TRUE, !.params = << "utm_source" >>, !.frag = TRUE]

AggPool ==
    { [SearchResult(Url(<<"example", "com">>, "", <<"utm_source">>, FALSE),
                    "Example", "e1", 60)
         EXCEPT !.content = Text(<< "<script>alert</script>", "Safe content" >>)],
      [SearchResult(Url(<<"example", "com">>, "/", << >>, TRUE),
                    "Example again", "e2", 30)
         EXCEPT !.content = Text(<< "<b>", "Other content", "</b>" >>),
                !.metadata = { "thumbnail" }],
      SearchResult(Url(<<"one", "org">>, "/a", << >>, FALSE), "One", "e1", 30),
      SearchResult(Url(<<"one", "org">>, "/b", << >>, FALSE), "Other", "e2", -30),
      [SearchResult(Url(<<"web", "site", "net">>, "/", << >>, FALSE), "Site", "e2", 60)
         EXCEPT !.content = Image("<script>alert</script>")],
      SearchResult(NotAUrl, "Raw", "e1", 0),
      SearchResult(NotAUrlNoisy, "Raw again", "e2", 30) }

Blocklists ==
    { << >>,
      << << "site" >> >>,
      << << "nowhere" >>, << "example", "com" >> >> }

InitAgg ==
    /\ now = 0
    /\ cb = NewBreaker(1, 1)
    /\ cbHist = NoCall(cb)
    /\ config = [e \in Engines |-> Settings(e)]
    /\ brk = [e \in Engines |->
                NewBreaker(EngineConfig(e).failure_threshold, EngineConfig(e).cooldown)]
    /\ last_request = [e \in Engines |-> None]
    /\ task = [x \in TaskIds |-> NoTask]
    /\ srch = [s \in Slots |-> IdleSearch]
    /\ obs = [searches |-> 0, calls |-> 0, calls0 |-> 0, late |-> FALSE, probes |-> 0]
    /\ \E results \in SeqsUpTo(AggPool, MaxInputs), blocklist \in Blocklists :
          call = [NoPureCall EXCEPT !.fn = "aggregate", !.results = results,
                                    !.blocklist = blocklist]

\* aggregate(results, blocklist) returns
AggregateCall ==
    /\ call.fn = "aggregate" /\ ~call.done
    /\ \E out \in Aggregate(call.results, call.blocklist) :
          call' = [call EXCEPT !.done = TRUE, !.out = out]
    /\ UNCHANGED << now, bvars, config, brk, last_request, task, srch, obs >>

NextAgg == AggregateCall

SpecAgg == InitAgg /\ [][NextAgg]_vars

(***************************************************************************)
(* Claims about aggregate (checked under SpecAgg).                         *)
(***************************************************************************)
\* the canonical form of a URL, stated on its own: an unparsable string is
\* its own key; otherwise no fragment, "/" for a missing path, and the query
\* keys that are not tracking parameters
Canonical(u) ==
    IF ~u.parse THEN u
    ELSE [parse |-> TRUE,
          scheme |-> IF u.scheme \in {"HTTPS", "https"} THEN "https" ELSE "http",
          host |-> [i \in 1..Len(u.host) |->
                      CASE u.host[i] = "Example" -> "example"
                        [] u.host[i] = "COM" -> "com"
                        [] OTHER -> u.host[i]],
          path |-> IF u.path = "" THEN "/" ELSE u.path,
          qmark |-> \E i \in 1..Len(u.params) : u.params[i] \notin TrackingParams,
          params |-> SelectSeq(u.params, LAMBDA k : k \notin TrackingParams),
          frag |-> FALSE]

\* the positions of the input list whose result is not dropped by the
\* blocklist
Kept == { i \in 1..Len(call.results) :
            ~HostBlocked(call.results[i].url, call.blocklist) }

\* the positions of the kept inputs whose canonical URL is key
Sharing(key) == { i \in Kept : Canonical(call.results[i].url) = key }

\* C14 (dedup correctness): aggregate returns as many results as there are
\* distinct canonical URLs among the non-blocked inputs, and no two of them
\* have the same url.
C14_DedupCorrectness ==
    call.done =>
        /\ Len(call.out)
              = Cardinality({ Canonical(call.results[i].url) : i \in Kept })
        /\ \A j, k \in 1..Len(call.out) :
              j # k => call.out[j].url # call.out[k].url

\* C14 witness: three inputs, two of them the same page under a tracking
\* parameter and under a fragment, came out as two results.
C14_Witness ==
    /\ call.done /\ call.blocklist = << >>
    /\ Len(call.results) = 3 /\ Len(call.out) = 2
    /\ call.results[1].url.params = << "utm_source" >>
    /\ call.results[2].url.frag
    /\ call.results[3].url.host = << "one", "org" >>

RECURSIVE SumScores(_)
\* the sum of the scores of the inputs at the positions of S
SumScores(S) ==
    IF S = {} THEN 0
    ELSE LET i == CHOOSE j \in S : TRUE
         IN call.results[i].score + SumScores(S \ {i})

\* the merge map after the first n inputs went through the loop
MapAfter(n) == MergeAll(<< >>, SubSeq(call.results, 1, n), call.blocklist)

\* C15 (merge by sum): the score of each result aggregate returns is the
\* sum of the scores of all non-blocked inputs whose canonical URL is its
\* url; and an input with a non-negative score never lowers the score of an
\* entry already in the merge map.
C15_MergeBySum ==
    call.done =>
        /\ \A k \in 1..Len(call.out) :
              call.out[k].score = SumScores(Sharing(call.out[k].url))
        /\ \A n \in 1..Len(call.results) :
              call.results[n].score >= 0 =>
                  \A j \in 1..Len(MapAfter(n - 1)) :
                      /\ MapAfter(n)[j].url = MapAfter(n - 1)[j].url
                      /\ MapAfter(n)[j].score >= MapAfter(n - 1)[j].score

\* C15 witness: the same page seen three times with scores 60, 30 and 60
\* came out once with score 150.
C15_Witness ==
    /\ call.done /\ call.blocklist = << >>
    /\ Len(call.results) = 3 /\ Len(call.out) = 1
    /\ call.results[1].score = 60 /\ call.results[2].score = 30
    /\ call.results[3].score = 60
    /\ call.out[1].score = 150

\* the engine id of the input at position i (adapters name one engine)
EngineAt(i) == call.results[i].engines[1]

\* the first position among the kept inputs sharing key that names eng
FirstAt(key, eng) ==
    CHOOSE i \in Sharing(key) :
        /\ EngineAt(i) = eng
        /\ \A j \in Sharing(key) : EngineAt(j) = eng => i <= j

\* C16 (engines list uniqueness): the engines list of every result aggregate
\* returns names no engine twice, names exactly the engines of the inputs
\* merged into it, and lists them in the order in which they first appear
\* among those inputs.
C16_EnginesUnique ==
    call.done =>
        \A k \in 1..Len(call.out) :
            LET engines == call.out[k].engines
                key == call.out[k].url
            IN /\ \A a, b \in 1..Len(engines) : a # b => engines[a] # engines[b]
               /\ { engines[a] : a \in 1..Len(engines) }
                     = { EngineAt(i) : i \in Sharing(key) }
               /\ \A a, b \in 1..Len(engines) :
                     a < b => FirstAt(key, engines[a]) < FirstAt(key, engines[b])

\* C16 witness: the page was seen by e2, then e1, then e2 again; its engines
\* list is e2, e1.
C16_Witness ==
    /\ call.done /\ Len(call.results) = 3 /\ Len(call.out) = 1
    /\ EngineAt(1) = "e2" /\ EngineAt(2) = "e1" /\ EngineAt(3) = "e2"
    /\ call.out[1].engines = << "e2", "e1" >>

\* C17 (engines list length bound): the engines list of every result
\* aggregate returns is no longer than the number of non-blocked inputs that
\* share its canonical URL.
C17_EnginesLengthBound ==
    call.done =>
        \A k \in 1..Len(call.out) :
            Len(call.out[k].engines) <= Cardinality(Sharing(call.out[k].url))

\* C17 witness: three sightings of one page by two engines give an engines
\* list of length two.
C17_Witness ==
    /\ call.done /\ Len(call.results) = 3 /\ Len(call.out) = 1
    /\ Cardinality(Sharing(call.out[1].url)) = 3
    /\ Len(call.out[1].engines) = 2

\* C18 (sort order): the scores of the sequence aggregate returns never
\* increase from one element to the next.
C18_SortOrder ==
    call.done =>
        \A k \in 1..(Len(call.out) - 1) :
            call.out[k].score >= call.out[k + 1].score

\* C18 witness: inputs with scores 0, 30, 60 in that order came out as
\* 60, 30, 0.
C18_Witness ==
    /\ call.done /\ Len(call.results) = 3 /\ Len(call.out) = 3
    /\ call.results[1].score = 0 /\ call.results[2].score = 30
    /\ call.results[3].score = 60
    /\ call.out[1].score = 60 /\ call.out[2].score = 30 /\ call.out[3].score = 0

\* the position of the first kept input whose canonical URL is key: the
\* moment the key is inserted into the merge map
FirstSighting(key) ==
    CHOOSE i \in Sharing(key) : \A j \in Sharing(key) : i <= j

\* C19 (tie-breaking): two results of equal score come out in the order in
\* which their keys were first inserted into the merge map.
C19_TieBreakByInsertion ==
    call.done =>
        \A j, k \in 1..Len(call.out) :
            (j < k /\ call.out[j].score = call.out[k].score)
            => FirstSighting(call.out[j].url) < FirstSighting(call.out[k].url)

\* what the blocklists of Blocklists drop, host by host
ExpectBlocked(u, blocklist) ==
    /\ u.parse
    /\ \/ blocklist = << << "site" >> >> /\ u.host = << "web", "site", "net" >>
       \/ /\ blocklist = << << "nowhere" >>, << "example", "com" >> >>
          /\ u.host = << "example", "com" >>

\* C20 (host blocklist): an input whose URL parses and whose host contains a
\* blocklist entry is absent from what aggregate returns and adds neither
\* its score nor its engine id to any result; every other input is present
\* under its canonical URL.
C20_HostBlocklist ==
    call.done =>
        LET allowed == { i \in 1..Len(call.results) :
                           ~ExpectBlocked(call.results[i].url, call.blocklist) }
            urls == { call.out[k].url : k \in 1..Len(call.out) }
        IN /\ \A i \in 1..Len(call.results) :
                 Canonical(call.results[i].url) \in urls <=> i \in allowed
           /\ \A k \in 1..Len(call.out) :
                 LET same == { i \in allowed :
                                 Canonical(call.results[i].url) = call.out[k].url }
                 IN /\ call.out[k].score = SumScores(same)
                    /\ { call.out[k].engines[a] : a \in 1..Len(call.out[k].engines) }
                          = { EngineAt(i) : i \in same }

\* C20 witness: under the blocklist entry "site" the result on host
\* web.site.net was dropped, while the unparsable string containing "site"
\* and the result on example.com were kept.
C20_Witness ==
    /\ call.done /\ call.blocklist = << << "site" >> >>
    /\ Len(call.results) = 3 /\ Len(call.out) = 2
    /\ call.results[1].url.host = << "web", "site", "net" >>
    /\ call.results[2].url = NotAUrl
    /\ call.results[3].url.host = << "example", "com" >>
    /\ \A k \in 1..2 : call.out[k].url.host # << "web", "site", "net" >>

(***************************************************************************)
(* normalize_url on its own, on every URL string of UrlStrings: applied    *)
(* once, applied again to its own result, and as aggregate applies it to   *)
(* the url of a result.                                                    *)
(***************************************************************************)
ParamKeys == { "q", "utm_source", "UTM_SOURCE", "fbclid" }

UrlStrings ==
    { UrlString(scheme, host, path, qmark, params, frag) :
        scheme \in { "https", "HTTPS", "http" },
        host \in { << "example", "com" >>, << "Example", "COM" >> },
        path \in { "", "/", "/Path" },
        qmark \in BOOLEAN,
        params \in SeqsUpTo(ParamKeys, MaxParams),
        frag \in BOOLEAN }

InitUrl ==
    /\ now = 0
    /\ cb = NewBreaker(1, 1)
    /\ cbHist = NoCall(cb)
    /\ config = [e \in Engines |-> Settings(e)]
    /\ brk = [e \in Engines |->
                NewBreaker(EngineConfig(e).failure_threshold, EngineConfig(e).cooldown)]
    /\ last_request = [e \in Engines |-> None]
    /\ task = [x \in TaskIds |-> NoTask]
    /\ srch = [s \in Slots |-> IdleSearch]
    /\ obs = [searches |-> 0, calls |-> 0, calls0 |-> 0, late |-> FALSE, probes |-> 0]
    /\ \E u \in { v \in UrlStrings : v.qmark \/ v.params = << >> } \cup { NotAUrl } :
          call = [NoPureCall EXCEPT !.fn = "normalize",
                                    !.results = << SearchResult(u, "Title", "e1", 60) >>]

\* normalize_url(&res.url)
NormalizeCall ==
    /\ call.fn = "normalize"
    /\ call' = [call EXCEPT !.fn = "normalized", !.done = TRUE,
                            !.out = << NormalizeUrl(call.results[1].url) >>]
    /\ UNCHANGED << now, bvars, config, brk, last_request, task, srch, obs >>

\* normalize_url applied to the string it returned
RenormalizeCall ==
    /\ call.fn = "normalized"
    /\ call' = [call EXCEPT !.fn = "renormalized",
                            !.out = Append(@, NormalizeUrl(call.out[1]))]
    /\ UNCHANGED << now, bvars, config, brk, last_request, task, srch, obs >>

\* aggregate(vec![res], &[]), as in test_aggregate_sanitization
AggregateUrl ==
    /\ call.fn = "normalize"
    /\ \E out \in Aggregate(call.results, << >>) :
          call' = [call EXCEPT !.fn = "aggregated", !.done = TRUE, !.out = out]
    /\ UNCHANGED << now, bvars, config, brk, last_request, task, srch, obs >>

NextUrl == NormalizeCall \/ RenormalizeCall \/ AggregateUrl

SpecUrl == InitUrl /\ [][NextUrl]_vars

\* C21 (canonicalisation is idempotent): normalize_url applied to its own
\* result returns it unchanged, and the url of every result aggregate
\* returns is left unchanged by normalize_url.
C21_Idempotent ==
    /\ call.fn = "renormalized" => call.out[2] = call.out[1]
    /\ call.fn = "aggregated" =>
          \A k \in 1..Len(call.out) : NormalizeUrl(call.out[k].url) = call.out[k].url

\* C21 witness: HTTPS://Example.COM?utm_source&fbclid#frag went through
\* normalize_url twice and both results are https://example.com/.
C21_Witness ==
    /\ call.fn = "renormalized"
    /\ call.results[1].url
          = UrlString("HTTPS", << "Example", "COM" >>, "", TRUE,
                      << "utm_source", "fbclid" >>, TRUE)
    /\ call.out[1] = Url(<< "example", "com" >>, "/", << >>, FALSE)
    /\ call.out[2] = call.out[1]

\* URLs that differ from u at most in fragment, tracking parameters and the
\* case of scheme and host
NoiseVariants(u) ==
    { UrlString(scheme, host, u.path, qmark, params, frag) :
        scheme \in IF u.scheme = "http" THEN { "http", "HTTP" }
                   ELSE { "https", "HTTPS" },
        host \in { << "example", "com" >>, << "Example", "com" >>,
                   << "Example", "COM" >> },
        qmark \in { TRUE, u.qmark },
        params \in { u.params,
                     SelectSeq(u.params, LAMBDA k : k \notin TrackingParams),
                     << "gclid" >> \o u.params,
                     Append(u.params, "utm_medium") },
        frag \in BOOLEAN }

\* C22 (canonicalisation rules): for a parsable URL normalize_url returns
\* scheme and host in lower case, no fragment, the path as written ("/" for
\* none), exactly the query keys that are not one of the eight tracking
\* names (compared case-sensitively) in their order, and no query part when
\* none is left; URLs that differ only in fragment, tracking parameters or
\* scheme/host case get the same result.
C22_CanonicalisationRules ==
    (call.fn = "normalized" /\ call.results[1].url.parse) =>
        LET u == call.results[1].url
            c == call.out[1]
        IN /\ c.scheme = IF u.scheme = "http" THEN "http" ELSE "https"
           /\ c.host = << "example", "com" >>
           /\ ~c.frag
           /\ c.path = IF u.path = "" THEN "/" ELSE u.path
           /\ c.params = SelectSeq(u.params, LAMBDA k : k \notin TrackingParams)
           /\ c.qmark <=> c.params # << >>
           /\ \A v \in NoiseVariants(u) :
                 (v.qmark \/ v.params = << >>) => NormalizeUrl(v) = c

\* C22 witness: HTTPS://Example.COM/Path?UTM_SOURCE&utm_source#frag became
\* https://example.com/Path?UTM_SOURCE.
C22_Witness ==
    /\ call.fn = "normalized"
    /\ call.results[1].url
          = UrlString("HTTPS", << "Example", "COM" >>, "/Path", TRUE,
                      << "UTM_SOURCE", "utm_source" >>, TRUE)
    /\ call.out[1] = Url(<< "example", "com" >>, "/Path", << "UTM_SOURCE" >>, FALSE)

(***************************************************************************)
(* Registration between searches.  register_engine takes &mut self, so it  *)
(* runs only while no search() is in progress.  The registry starts with   *)
(* every engine registered once (adapter 1 of each id); call.engine is the *)
(* adapter each entry holds, call.pre the entry the last register_engine   *)
(* call found under the id, call.ret what the call returned.               *)
(***************************************************************************)
Adapters == {1, 2}

\* the EngineEntry stored under id e
EngineEntry(e) ==
    [engine |-> call.engine[e], categories |-> EngineCategories(e),
     config |-> config[e], last_request |-> last_request[e],
     circuit_breaker |-> brk[e]]

\* register_engine(engine): a fresh entry is built from settings.engines[id]
\* and inserted under the id, replacing whatever the map held; the function
\* returns ()
RegisterEngine(e, a) ==
    /\ srch[1].phase \in {"idle", "returned"}
    /\ brk' = [brk EXCEPT ![e] =
                 NewBreaker(config[e].failure_threshold, config[e].cooldown)]
    /\ last_request' = [last_request EXCEPT ![e] = None]
    /\ call' = [call EXCEPT !.fn = "register_engine", !.id = e,
                            !.engine[e] = a,
                            !.pre = EngineEntry(e), !.ret = "unit"]
    /\ UNCHANGED << now, bvars, config, task, srch, obs >>

NextReg ==
    \/ Tick
    \/ SeqStart
    \/ SeqCheck
    \/ TaskThrottle(1, "e1") /\ UNCHANGED << obs, call >>
    \/ SeqInvoke
    \/ AdapterErr(1, "e1") /\ UNCHANGED << obs, call >>
    \/ AdapterTimeout(1, "e1") /\ UNCHANGED << obs, call >>
    \/ Return(1) /\ UNCHANGED << obs, call >>
    \/ \E a \in Adapters : RegisterEngine("e1", a)

InitReg ==
    /\ now = 0
    /\ cb = NewBreaker(1, 1)
    /\ cbHist = NoCall(cb)
    /\ config = [e \in Engines |-> Settings(e)]
    /\ brk = [e \in Engines |->
                NewBreaker(config[e].failure_threshold, config[e].cooldown)]
    /\ last_request = [e \in Engines |-> None]
    /\ task = [x \in TaskIds |-> NoTask]
    /\ srch = [s \in Slots |-> IdleSearch]
    /\ obs = [searches |-> 0, calls |-> 0, calls0 |-> 0, late |-> FALSE, probes |-> 0]
    /\ call = [fn |-> "-", id |-> "-", engine |-> [e \in Engines |-> 1],
               pre |-> None, ret |-> "-"]

SpecReg == InitReg /\ [][NextReg]_vars

\* C23 (duplicate registration): a register_engine call for an id that is
\* already registered is rejected with an error and leaves the entry stored
\* under that id (adapter, categories, config, last_request and breaker) as
\* it was before the call.
C23_DuplicateRejected ==
    [][(\E a \in Adapters : RegisterEngine("e1", a)) =>
          /\ call'.ret = "error"
          /\ EngineEntry("e1")' = EngineEntry("e1")]_vars

\* C23, what the code does: a second adapter registered under e1 after a
\* failed search had left a failure and a reservation in the first entry
\* returns () and leaves a fresh entry holding the second adapter
C23_Witness ==
    /\ call.fn = "register_engine"
    /\ call.ret = "unit"
    /\ call.pre.engine = 1
    /\ call.pre.circuit_breaker.failures = 1
    /\ call.pre.last_request # None
    /\ EngineEntry("e1").engine = 2
    /\ EngineEntry("e1").circuit_breaker.failures = 0
    /\ EngineEntry("e1").last_request = None

(***************************************************************************)
(* Further claims about aggregate (checked under SpecAgg).                 *)
(***************************************************************************)
\* the inputs, in order, that are not blocked and whose canonical URL is key
Sightings(key) ==
    SelectSeq([i \in 1..Len(call.results) |-> call.results[i]],
              LAMBDA r : /\ ~ExpectBlocked(r.url, call.blocklist)
                         /\ Canonical(r.url) = key)

\* a content after sanitisation: a Text without its script elements, any
\* other kind as it was
Sanitised(content) ==
    IF content.kind = "Text"
    THEN [content EXCEPT !.text =
             SelectSeq(@, LAMBDA piece : piece # "<script>alert</script>")]
    ELSE content

\* C24 (first-sighting retention): every result aggregate returns has the
\* title, the sanitised content and the metadata of the first non-blocked
\* input with its canonical key, and that key as its url; the later
\* sightings of the key show only in its score and its engines list.
C24_FirstSightingRetention ==
    call.done =>
        \A k \in 1..Len(call.out) :
            LET r == call.out[k]
                seen == Sightings(r.url)
                first == seen[1]
            IN /\ seen # << >>
               /\ r.title = first.title
               /\ r.content = Sanitised(first.content)
               /\ r.metadata = first.metadata
               /\ r.url = Canonical(first.url)
               /\ r = [first EXCEPT
                         !.url = Canonical(first.url),
                         !.content = Sanitised(first.content),
                         !.score = SumScores({ i \in 1..Len(call.results) :
                                     /\ ~ExpectBlocked(call.results[i].url, call.blocklist)
                                     /\ Canonical(call.results[i].url) = r.url }),
                         !.engines = r.engines]

\* C24 witness: example.com/ was sighted twice, the later sighting with
\* another title, content and metadata; the result carries the first title,
\* the first content without its script element, the first (empty)
\* metadata, the canonical url and the sum of the two scores.
C24_Witness ==
    /\ call.done /\ Len(call.results) = 2 /\ Len(call.out) = 1
    /\ call.results[1].title = "Example"
    /\ call.results[1].content = Text(<< "<script>alert</script>", "Safe content" >>)
    /\ call.results[2].title = "Example again"
    /\ call.results[2].metadata = { "thumbnail" }
    /\ call.out[1].title = "Example"
    /\ call.out[1].content = Text(<< "Safe content" >>)
    /\ call.out[1].metadata = {}
    /\ call.out[1].url = Url(<<"example", "com">>, "/", << >>, FALSE)
    /\ call.out[1].score = 90
    /\ call.out[1].engines = << "e1", "e2" >>

(***************************************************************************)
(* Further claims about the dispatch tasks (checked under Spec).           *)
(***************************************************************************)
\* one report_success(), spelled out
OneSuccessReported(b, b2) ==
    /\ b2.failure_threshold = b.failure_threshold /\ b2.cooldown = b.cooldown
    /\ b.state = "HalfOpen" =>
          b2.state = "Closed" /\ b2.failures = 0 /\ b2.last_failure = None
    /\ b.state = "Closed" =>
          b2.state = "Closed" /\ b2.failures = 0 /\ b2.last_failure = b.last_failure
    /\ b.state = "Open" => b2 = b

\* the dispatch to e leaves the adapter call with a classified outcome
Classified(e) ==
    task[<<1, e>>].pc = "inflight" /\ task'[<<1, e>>].pc = "done"

\* the step that classifies the outcome of the dispatch to e reports it to
\* e's breaker, a success for Ok and a failure for Err and for the deadline,
\* and a failure adds nothing to raw_results; from its invocation on no
\* other step of the dispatch touches the breaker
OutcomeStep ==
    \A e \in Engines :
        LET a == task[<<1, e>>]
            a2 == task'[<<1, e>>]
        IN /\ Classified(e) =>
                /\ a2.res \in {"ok", "err", "timeout"}
                /\ a2.res = "ok" =>
                      /\ OneSuccessReported(brk[e], brk'[e])
                      /\ srch'[1].raw = srch[1].raw \o a2.out
                /\ a2.res \in {"err", "timeout"} =>
                      /\ OneFailureReported(brk[e], brk'[e], now)
                      /\ brk'[e].failure_threshold = brk[e].failure_threshold
                      /\ brk'[e].cooldown = brk[e].cooldown
                      /\ a2.out = << >>
                      /\ srch'[1].raw = srch[1].raw
           /\ (a.pc \in {"throttle", "wait", "inflight", "done"} /\ ~Classified(e))
                => brk'[e] = brk[e]

C26_OpenHasTimestamp ==
    /\ cb.state \in {"Open", "HalfOpen"} => cb.last_failure # None
    /\ \A e \in Engines :
          brk[e].state \in {"Open", "HalfOpen"} => brk[e].last_failure # None
    /\ (cbHist.op = "check" /\ cbHist.pre.state = "Open")
          => cbHist.pre.last_failure # None

\* C26 witness: an unexpected report_success() reached the breaker while it
\* was Open and the timestamp written at instant 1 is still there.
C26_Witness ==
    /\ cb.state = "Open" /\ cb.last_failure = Some(1)
    /\ cbHist.op = "report_success" /\ cbHist.pre.state = "Open"
    /\ now = 2

\* a step of the breaker's history: time passes or one call is made
HalfOpenStep ==
    /\ now' # now => cb' = cb
    /\ (cb.state # "HalfOpen" /\ cb'.state = "HalfOpen") =>
          /\ cbHist'.op = "check" /\ cbHist'.ret
          /\ cb.state = "Open"
          /\ cb.last_failure # None
          /\ now - cb.last_failure[1] >= cb.cooldown
    /\ (now' = now /\ cbHist'.op \in {"report_success", "report_failure"})
          => cb'.state # "HalfOpen"
    /\ (now' = now /\ cbHist'.op = "check" /\ cb.state = "Closed")
          => cb' = cb /\ cbHist'.ret

\* C27 (HalfOpen only from check): the breaker becomes HalfOpen only in a
\* check() call made in Open once the cooldown has elapsed; no
\* report_success(), no report_failure() and no passage of time leaves it
\* HalfOpen, and a check() in Closed changes nothing.
C27_HalfOpenOnlyFromCheck == [][HalfOpenStep]_vars

\* C27 witness: with cooldown 2 and last_failure 1 the check() at instant 3
\* found the breaker Open and left it HalfOpen.
C27_Witness ==
    /\ cb.state = "HalfOpen" /\ cb.cooldown = 2 /\ cb.last_failure = Some(1)
    /\ cbHist.op = "check" /\ cbHist.pre.state = "Open" /\ cbHist.ret
    /\ cbHist.at = 3 /\ now = 3

(***************************************************************************)
(* The two tokio mutexes of an entry, step by step.  Concurrent search()   *)
(* calls dispatch to e1; `call` is here the lock table of e1's entry:      *)
(* call.circuit_breaker and call.last_request name the slot whose task     *)
(* holds the MutexGuard (None when the mutex is free) and call.outcome[s]  *)
(* is what the timeout(..).await of slot s has returned to a task that has *)
(* not yet reported it ("-" while nothing is pending).  A task whose       *)
(* lock().await finds the mutex taken stays where it is until it is free.  *)
(***************************************************************************)
NoLocks ==
    [fn |-> "locks", circuit_breaker |-> None, last_request |-> None,
     outcome |-> [s \in Slots |-> "-"]]

\* `circuit_breaker.lock().await` at the head of the task
LockBreaker(s) ==
    /\ task[<<s, "e1">>].pc = "check"
    /\ call.circuit_breaker = None
    /\ call' = [call EXCEPT !.circuit_breaker = Some(s)]
    /\ UNCHANGED << now, bvars, config, brk, last_request, task, srch, obs >>

\* cb.check() under the guard; the guard is dropped at the end of the block
\* or at the early return
LockedCheck(s) ==
    /\ call.circuit_breaker = Some(s)
    /\ TaskCheck(s, "e1")
    /\ call' = [call EXCEPT !.circuit_breaker = None]
    /\ UNCHANGED obs

\* `last_request.lock().await`
LockLastRequest(s) ==
    /\ task[<<s, "e1">>].pc = "throttle"
    /\ call.last_request = None
    /\ call' = [call EXCEPT !.last_request = Some(s)]
    /\ UNCHANGED << now, bvars, config, brk, last_request, task, srch, obs >>

\* mutant of LockedThrottle: the guard `last` lives until the sleep is over
LockedThrottleSleepsLocked(s) ==
    /\ call.last_request = Some(s)
    /\ TaskThrottle(s, "e1")
    /\ UNCHANGED << obs, call >>

\* the reservation under the guard `last`, dropped at the end of the block
\* that computes sleep_duration
LockedThrottle(s) ==
    /\ call.last_request = Some(s)
    /\ TaskThrottle(s, "e1")
    /\ call' = [call EXCEPT !.last_request = None]
    /\ UNCHANGED obs

\* timeout(..).await returns: Ok(Ok(_)), Ok(Err(_)) or Err(Elapsed)
Outcome(s, res) ==
    /\ task[<<s, "e1">>].pc = "inflight"
    /\ call.outcome[s] = "-"
    /\ res = "timeout" =>
          now - task[<<s, "e1">>].t0[1] >= EngineConfig("e1").timeout
    /\ call' = [call EXCEPT !.outcome[s] = res]
    /\ UNCHANGED << now, bvars, config, brk, last_request, task, srch, obs >>

\* `circuit_breaker.lock().await` in an arm of the match
LockBreakerToReport(s) ==
    /\ call.outcome[s] # "-"
    /\ call.circuit_breaker = None
    /\ call' = [call EXCEPT !.circuit_breaker = Some(s)]
    /\ UNCHANGED << now, bvars, config, brk, last_request, task, srch, obs >>

\* report_success() or report_failure() on the temporary guard, which is
\* dropped at the end of the statement
LockedReport(s) ==
    /\ call.circuit_breaker = Some(s)
    /\ \/ call.outcome[s] = "ok" /\ AdapterOk(s, "e1")
       \/ call.outcome[s] = "err" /\ AdapterErr(s, "e1")
       \/ call.outcome[s] = "timeout" /\ AdapterTimeout(s, "e1")
    /\ call' = [call EXCEPT !.circuit_breaker = None, !.outcome[s] = "-"]
    /\ UNCHANGED obs

NextLock ==
    \/ Tick
    \/ \E s \in Slots : StartSearch(s, << >>) /\ UNCHANGED << obs, call >>
    \/ \E s \in Slots : LockBreaker(s)
    \/ \E s \in Slots : LockedCheck(s)
    \/ \E s \in Slots : LockLastRequest(s)
    \/ \E s \in Slots : LockedThrottle(s)
    \/ \E s \in Slots : TaskInvoke(s, "e1") /\ UNCHANGED << obs, call >>
    \/ \E s \in Slots, res \in {"ok", "err", "timeout"} : Outcome(s, res)
    \/ \E s \in Slots : LockBreakerToReport(s)
    \/ \E s \in Slots : LockedReport(s)
    \/ \E s \in Slots :
          /\ call.outcome[s] = "-"
          /\ AdapterPanic(s, "e1")
          /\ UNCHANGED << obs, call >>
    \/ \E s \in Slots : Return(s) /\ UNCHANGED << obs, call >>

InitLock ==
    /\ now = 0
    /\ cb = NewBreaker(1, 1)
    /\ cbHist = NoCall(cb)
    /\ config = [e \in Engines |-> Settings(e)]
    /\ brk = [e \in Engines |->
                NewBreaker(config[e].failure_threshold, config[e].cooldown)]
    /\ last_request = [e \in Engines |-> None]
    /\ task = [x \in TaskIds |-> NoTask]
    /\ srch = [s \in Slots |-> IdleSearch]
    /\ obs = [searches |-> 0, calls |-> 0, calls0 |-> 0, late |-> FALSE, probes |-> 0]
    /\ call = NoLocks

SpecLock == InitLock /\ [][NextLock]_vars

(***************************************************************************)
(* Claims about the mutexes (checked under SpecLock).                      *)
(***************************************************************************)
Mutexes == {"circuit_breaker", "last_request"}

\* the mutexes of e1's entry whose guard the task of slot s holds
Held(s) == { m \in Mutexes : call[m] = Some(s) }

\* the task of slot s is at a lock().await of mutex m and has not got it
Waiting(s, m) ==
    /\ call[m] # Some(s)
    /\ \/ m = "circuit_breaker"
          /\ (task[<<s, "e1">>].pc = "check" \/ call.outcome[s] # "-")
       \/ m = "last_request" /\ task[<<s, "e1">>].pc = "throttle"

\* the task of slot h can run to the point where it drops its guard
CanRelease(h) ==
    ENABLED (LockedCheck(h) \/ LockedThrottle(h) \/ LockedReport(h))

\* C28 (lock discipline): a dispatch task holds at most one of the two
\* mutexes of its engine, none while it sleeps in the throttle and none
\* while its adapter call is in flight; a task that holds one waits for no
\* other, so whenever a task waits for a mutex the mutex is free or its
\* holder can go on to release it: the tasks never deadlock on the mutexes.
C28_LockDiscipline ==
    \A s \in Slots :
        LET a == task[<<s, "e1">>] IN
        /\ Cardinality(Held(s)) <= 1
        /\ a.pc = "wait" => Held(s) = {}
        /\ (a.pc = "inflight" /\ call.outcome[s] = "-") => Held(s) = {}
        /\ a.pc \in {"none", "done", "panicked"} => Held(s) = {}
        /\ Held(s) # {} => \A m \in Mutexes : ~Waiting(s, m)
        /\ \A m \in Mutexes :
              Waiting(s, m) =>
                  \/ call[m] = None
                  \/ \E h \in Slots : call[m] = Some(h) /\ CanRelease(h)

\* C28 witness: the task of slot 1 sleeps in the throttle until instant 2
\* and holds nothing, so that the task of slot 2 could take the
\* last_request mutex for its own reservation.
C28_Witness ==
    /\ task[<<1, "e1">>].pc = "wait" /\ task[<<1, "e1">>].slept
    /\ task[<<1, "e1">>].slot = Some(2) /\ now = 1
    /\ Held(1) = {}
    /\ task[<<2, "e1">>].pc = "throttle" /\ Held(2) = {"last_request"}

C29_Witness ==
    /\ task[<<2, "e1">>].slept /\ task[<<2, "e1">>].pc = "done"
    /\ task[<<2, "e1">>].res = "ok"
    /\ task[<<1, "e1">>].res = "ok" /\ ~task[<<1, "e1">>].slept
    /\ brk["e1"].failures = 0 /\ brk["e1"].state = "Closed"

\* the task of slot s makes its reservation in e's throttle
Reserves(s, e) ==
    task[<<s, e>>].pc = "throttle" /\ task'[<<s, e>>].pc = "wait"

\* no step lowers or unsets last_request; a reservation sets it, to a value
\* not below the one it read and at least throttle above it when that one
\* is less than throttle in the past (or still ahead)
MonotoneStep ==
    \A e \in Engines :
        LET last == last_request[e]
            new == last_request'[e]
        IN /\ last # None => (new # None /\ new[1] >= last[1])
           /\ \A s \in Slots :
                 Reserves(s, e) =>
                     /\ new # None
                     /\ task'[<<s, e>>].slot = new
                     /\ (last # None /\ now - last[1] < config[e].throttle)
                           => new[1] >= last[1] + config[e].throttle
           /\ new # last => \E s \in Slots : Reserves(s, e)

\* C30 (last_request is monotone): the value of an engine's last_request
\* never decreases: every reservation writes a value at least as large as
\* the one before, and at least throttle larger when the one before is less
\* than throttle in the past.
C30_LastDispatchMonotone == [][MonotoneStep]_vars

\* C30 witness: with throttle 2 three reservations were made at instant 0,
\* for the instants 0, 2 and 4; the tasks holding 2 and 4 still sleep.
C30_Witness ==
    /\ now = 0 /\ config["e1"].throttle = 2
    /\ last_request["e1"] = Some(4)
    /\ \E s1, s2 \in Slots :
          /\ task[<<s1, "e1">>].pc = "wait" /\ task[<<s1, "e1">>].slot = Some(2)
          /\ task[<<s2, "e1">>].pc = "wait" /\ task[<<s2, "e1">>].slot = Some(4)

(***************************************************************************)
(* Unparsable URLs (checked under SpecAgg).                                *)
(***************************************************************************)
\* the positions of the inputs whose url is the raw string u
SameRaw(u) == { i \in 1..Len(call.results) : call.results[i].url = u }

\* C31 (unparsable URLs): normalize_url returns a string that does not parse
\* as it is; aggregate never drops a result with such a url, whatever the
\* blocklist, returns it under the raw string, and merges into it the inputs
\* with the identical raw string and no others.
C31_UnparsableUrls ==
    call.done =>
        \A i \in 1..Len(call.results) :
            LET u == call.results[i].url IN
            ~u.parse =>
                /\ NormalizeUrl(u) = u
                /\ \E k \in 1..Len(call.out) : call.out[k].url = u
                /\ \A k \in 1..Len(call.out) :
                      call.out[k].url = u =>
                          /\ call.out[k].score = SumScores(SameRaw(u))
                          /\ { call.out[k].engines[a] :
                                 a \in 1..Len(call.out[k].engines) }
                                = { EngineAt(j) : j \in SameRaw(u) }

\* C31 witness: under the blocklist entry "site" two results with the raw
\* string "site" and one with the raw string that adds a tracking parameter
\* and a fragment to it came out as two results, the first two merged.
C31_Witness ==
    /\ call.done /\ call.blocklist = << << "site" >> >>
    /\ Len(call.results) = 3 /\ Len(call.out) = 2
    /\ call.results[1].url = NotAUrl /\ call.results[2].url = NotAUrlNoisy
    /\ call.results[3].url = NotAUrl
    /\ \E k \in 1..2 : call.out[k].url = NotAUrl /\ call.out[k].engines = << "e1" >>
    /\ \E k \in 1..2 : call.out[k].url = NotAUrlNoisy /\ call.out[k].score = 30

(***************************************************************************)
(* The breaker's counter (checked under SpecBreaker).                      *)
(***************************************************************************)
\* C32 (counter invariants): with failure_threshold >= 1 the counter never
\* exceeds the threshold; a Closed breaker has fewer failures than the
\* threshold and no last_failure; a report_failure() made in Open or
\* HalfOpen leaves the counter as it was.
C32_CounterInvariants ==
    cb.failure_threshold >= 1 =>
        /\ cb.failures <= cb.failure_threshold
        /\ cb.state = "Closed" =>
              cb.failures < cb.failure_threshold /\ cb.last_failure = None
        /\ (cbHist.op = "report_failure" /\ cbHist.pre.state \in {"Open", "HalfOpen"})
              => cb.failures = cbHist.pre.failures

\* C32 witness: with threshold 2 a failed probe re-opened the breaker and
\* the counter still stands at 2.
C32_Witness ==
    /\ cb.failure_threshold = 2 /\ cb.failures = 2 /\ cb.state = "Open"
    /\ cbHist.op = "report_failure" /\ cbHist.pre.state = "HalfOpen"
    /\ cbHist.pre.failures = 2

\* C33 (outcomes reported while Open): a report_success() made in Open
\* leaves state, failures and last_failure as they were; a
\* report_failure() made in Open leaves state and failures as they were and
\* sets last_failure to the instant of the call, from which the cooldown
\* runs anew: check() admits again only cooldown after that instant.
C33_ReportsWhileOpen ==
    LET p == cbHist.pre IN
    /\ (cbHist.op = "report_success" /\ p.state = "Open") => cb = p
    /\ (cbHist.op = "report_failure" /\ p.state = "Open") =>
          /\ cb.state = "Open" /\ cb.failures = p.failures
          /\ cb.failure_threshold = p.failure_threshold /\ cb.cooldown = p.cooldown
          /\ cb.last_failure = Some(cbHist.at)
          /\ Check(cb, now).ret <=> now - cbHist.at >= cb.cooldown

\* C33 witness: the breaker opened at instant 0 with cooldown 2; a late
\* failure was reported at instant 2, so that at instant 3 check() still
\* refuses although more than the cooldown has passed since instant 0.
C33_Witness ==
    /\ cbHist.op = "report_failure" /\ cbHist.pre.state = "Open"
    /\ cbHist.pre.last_failure = Some(0) /\ cbHist.at = 2
    /\ cb.cooldown = 2 /\ cb.last_failure = Some(2) /\ cb.state = "Open"
    /\ now = 3 /\ ~Check(cb, now).ret

(***************************************************************************)
(* The breaker under concurrent dispatches (checked under SpecConc).       *)
(***************************************************************************)
\* the task of slot s reports the outcome of its adapter call
Reports(s) ==
    task[<<s, "e1">>].pc = "inflight" /\ task'[<<s, "e1">>].pc = "done"

\* a step that takes e1's breaker out of HalfOpen is the report of the
\* dispatch that check() admitted as the probe
ProbeExitStep ==
    (brk["e1"].state = "HalfOpen" /\ brk'["e1"].state # "HalfOpen")
    => \E s \in Slots : Reports(s) /\ task[<<s, "e1">>].adm = "probe"

\* C34 (probe exclusivity): while a half-open probe is in flight only the
\* probe's own outcome moves the breaker out of HalfOpen; the outcome of a
\* dispatch admitted while the breaker was Closed, reported late, neither
\* closes nor re-opens it.
C34_ProbeExclusivity == [][ProbeExitStep]_vars

\* C34, what the code does: the probe is still in flight and the breaker is
\* already Closed, closed by the success of a dispatch that had been
\* admitted while the breaker was Closed.
C34_Witness ==
    \E s1, s2 \in Slots :
        /\ task[<<s1, "e1">>].adm = "probe" /\ task[<<s1, "e1">>].pc = "inflight"
        /\ task[<<s2, "e1">>].adm = "closed" /\ task[<<s2, "e1">>].pc = "done"
        /\ task[<<s2, "e1">>].res = "ok"
        /\ brk["e1"].state = "Closed" /\ brk["e1"].failures = 0

(***************************************************************************)
(* Progress of one search() call at a time.  The caller may drop the       *)
(* future of search() while it runs: the JoinSet is dropped with it and    *)
(* aborts every task that has not ended, at the await it is suspended in   *)
(* (the lock, the sleep or the adapter call), so that none of them runs    *)
(* any further.  The scheduler runs every task that can run, an adapter    *)
(* call comes to an end (it returns, is cut off or panics) and time        *)
(* passes; when searches start, and whether they are dropped, is up to the *)
(* callers.                                                                *)
(***************************************************************************)
\* the future of the search() call in slot s is dropped (the reservations
\* of dropped calls add up: calls are dropped only while no reservation lies
\* beyond MaxTime)
Cancel(s) ==
    /\ srch[s].phase = "running"
    /\ \A e \in Engines : last_request[e] # None => last_request[e][1] <= MaxTime
    /\ srch' = [srch EXCEPT ![s] = IdleSearch]
    /\ task' = [x \in TaskIds |->
                  IF x[1] = s /\ task[x].pc \in {"check", "throttle", "wait", "inflight"}
                  THEN [task[x] EXCEPT !.pc = "aborted", !.res = "aborted",
                                       !.slot = None, !.t0 = None]
                  ELSE task[x]]
    /\ UNCHANGED << now, bvars, config, brk, last_request >>

\* the adapter call of the dispatch to e comes to an end
CallEnds(e) ==
    \/ AdapterOk(1, e) /\ UNCHANGED << obs, call >>
    \/ AdapterErr(1, e) /\ UNCHANGED << obs, call >>
    \/ AdapterTimeout(1, e) /\ UNCHANGED << obs, call >>
    \/ AdapterPanic(1, e) /\ UNCHANGED << obs, call >>

\* a search() call starts (only while the sleep it may run into ends at an
\* instant the clock of the model reaches)
StartLive(q) ==
    /\ \A e \in Engines :
          last_request[e] # None =>
              last_request[e][1] + EngineConfig(e).throttle <= MaxTime
    /\ StartSearch(1, q)
    /\ UNCHANGED << obs, call >>

NextLive ==
    \/ Tick
    \/ StartLive(<< "general", ",", "images" >>)
    \/ \E e \in Engines : TaskCheck(1, e) /\ UNCHANGED << obs, call >>
    \/ \E e \in Engines : TaskThrottle(1, e) /\ UNCHANGED << obs, call >>
    \/ \E e \in Engines : TaskInvoke(1, e) /\ UNCHANGED << obs, call >>
    \/ \E e \in Engines : CallEnds(e)
    \/ Return(1) /\ UNCHANGED << obs, call >>
    \/ Cancel(1) /\ UNCHANGED << obs, call >>

\* the next step of the task of engine e, whichever it is
TaskStep(e) ==
    \/ TaskCheck(1, e) /\ UNCHANGED << obs, call >>
    \/ TaskThrottle(1, e) /\ UNCHANGED << obs, call >>
    \/ TaskInvoke(1, e) /\ UNCHANGED << obs, call >>
    \/ CallEnds(e)

Fairness ==
    /\ WF_vars(Tick)
    /\ WF_vars(Return(1) /\ UNCHANGED << obs, call >>)
    /\ \A e \in Engines : WF_vars(TaskStep(e))

SpecLive == Init /\ [][NextLive]_vars /\ Fairness

\* C35 (HalfOpen is always left): once check() has admitted a probe the
\* admitted dispatch reports its outcome, so that the breaker, here that of
\* e2, whose dispatch never waits in a throttle, does not stay HalfOpen:
\* it returns to Closed or Open, also when the adapter call panics or runs
\* into its deadline and when the search() call is dropped with the probe
\* in flight.
C35_HalfOpenIsLeft ==
    (brk["e2"].state = "HalfOpen") ~> (brk["e2"].state # "HalfOpen")

\* C35, what the code does: the probe's task has ended, by a panic or by an
\* abort, without a report, and the breaker is HalfOpen, where check()
\* refuses every dispatch and nothing is left to report.
C35_Witness ==
    /\ brk["e2"].state = "HalfOpen"
    /\ task[<<1, "e2">>].adm = "probe"
    /\ task[<<1, "e2">>].pc \in {"panicked", "aborted"}

(***************************************************************************)
(* The breaker at the invocation (checked under SpecConc).                 *)
(***************************************************************************)
\* the task of slot s calls engine.search
Invokes(s) ==
    task[<<s, "e1">>].pc = "wait" /\ task'[<<s, "e1">>].pc = "inflight"

\* the task of slot s gets true from check()
Admitted(s) ==
    task[<<s, "e1">>].pc = "check" /\ task'[<<s, "e1">>].pc \in {"throttle", "wait"}

\* C36 (no invocation while Open): at the instant a dispatch invokes the
\* adapter the engine's breaker is Closed or HalfOpen, also for a dispatch
\* that passed check() while Closed and then waited in the throttle.
C36_NoInvocationWhileOpen ==
    [][\A s \in Slots :
          Invokes(s) => brk["e1"].state \in {"Closed", "HalfOpen"}]_vars

\* C36 as amended: a dispatch invokes the adapter only after check() has
\* returned true for it, and at the instant check() returns true the breaker
\* is Closed or has just become HalfOpen; the state is not looked at again,
\* so by the invocation, after the throttle wait, it may be Open.
C36_AdmittedWhenChecked ==
    [][\A s \in Slots :
          /\ Invokes(s) => task[<<s, "e1">>].adm \in {"closed", "probe"}
          /\ Admitted(s) =>
                /\ brk'["e1"].state \in {"Closed", "HalfOpen"}
                /\ task'[<<s, "e1">>].adm =
                      IF brk["e1"].state = "Closed" THEN "closed" ELSE "probe"
                /\ brk["e1"].state = "Closed" => brk'["e1"] = brk["e1"]
                /\ brk["e1"].state # "Closed" =>
                      brk["e1"].state = "Open" /\ brk'["e1"].state = "HalfOpen"]_vars

\* C36 witness: a dispatch admitted while the breaker was Closed slept in
\* the throttle and has just invoked the adapter; the breaker is Open.
C36_Witness ==
    \E s \in Slots :
        /\ task[<<s, "e1">>].pc = "inflight" /\ task[<<s, "e1">>].adm = "closed"
        /\ task[<<s, "e1">>].slept /\ task[<<s, "e1">>].t0 = Some(now)
        /\ brk["e1"].state = "Open" /\ CooldownPassed(brk["e1"], now) = FALSE

(***************************************************************************)
(* What a search() leaves alone (checked under Spec).                      *)
(***************************************************************************)
\* engine e is enabled and declares a tag of the query of the call that is
\* under way after the step
ChosenAfter(e) ==
    /\ config[e].enabled
    /\ QueryTags(srch'[1].query) \cap DeclaredTags(e) # {}

\* no step of a search() touches the breaker or last_request of an engine
\* it has not chosen, and no step of a dispatch that the breaker has
\* rejected touches last_request
FrameStep ==
    \A e \in Engines :
        LET a == task[<<1, e>>]
            a2 == task'[<<1, e>>]
        IN /\ (srch'[1].phase \in {"running", "returned"} /\ ~ChosenAfter(e)) =>
                /\ a2.pc = "none"
                /\ brk'[e] = brk[e]
                /\ last_request'[e] = last_request[e]
           /\ a2.adm = "rejected" =>
                /\ last_request'[e] = last_request[e]
                /\ a2.slot = None /\ a2.pc = "done"

\* C37 (frame of a non-dispatch): a search() leaves the breaker and
\* last_request of an engine as they are when the engine is disabled or
\* shares no category with the query: check() is not called, so an Open
\* breaker whose cooldown has passed keeps its probe; and it leaves
\* last_request as it is when the breaker rejects the dispatch.
C37_NonDispatchFrame == [][FrameStep]_vars

\* C37 witness: a search for "general" has returned; e1 was rejected by its
\* breaker and no reservation was written after its last failure; e2, which
\* declares only "images", is still Open with its cooldown over, the probe
\* not taken; the disabled e3 was left alone.
C37_Witness ==
    /\ srch[1].phase = "returned" /\ srch[1].query = << >>
    /\ task[<<1, "e1">>].adm = "rejected"
    /\ last_request["e1"] # None /\ brk["e1"].last_failure # None
    /\ last_request["e1"][1] <= brk["e1"].last_failure[1]
    /\ task[<<1, "e2">>].pc = "none"
    /\ brk["e2"].state = "Open" /\ CooldownPassed(brk["e2"], now)
    /\ task[<<1, "e3">>].pc = "none" /\ brk["e3"] = NewBreaker(1, 1)

(***************************************************************************)
(* Category strings without a tag (checked under Spec).                    *)
(***************************************************************************)
\* the longest categories string get_categories is evaluated on, in pieces
MaxCategoryPieces == 3

\* the categories strings made of blanks, commas and the two tag names
CategoryStrings ==
    UNION { [1..n -> {" ", ",", "general", "images"}] : n \in 0..MaxCategoryPieces }

\* a non-empty string of commas and blanks only
Blank(categories) ==
    /\ categories # << >>
    /\ \A i \in 1..Len(categories) : categories[i] \in {" ", ","}

\* a tag as get_categories returns it: not empty, no comma inside, no blank
\* at either end
CleanTag(t) ==
    /\ t # << >>
    /\ \A i \in 1..Len(t) : t[i] # ","
    /\ Head(t) # " " /\ t[Len(t)] # " "

\* C38 (category parsing edge case): every tag get_categories returns is
\* trimmed and non-empty; a non-empty categories string of commas and
\* blanks only gives no tag at all, not the default "general"; and a
\* search() with such a string spawns no task and returns the empty
\* sequence.
C38_BlankCategories ==
    /\ \A c \in CategoryStrings :
          /\ \A i \in 1..Len(GetCategories(c)) : CleanTag(GetCategories(c)[i])
          /\ Blank(c) => GetCategories(c) = << >>
    /\ (srch[1].phase \in {"running", "returned"} /\ Blank(srch[1].query)) =>
          /\ \A e \in Engines : task[<<1, e>>].pc = "none"
          /\ srch[1].raw = << >>
          /\ srch[1].phase = "returned" => srch[1].ret = << >>

\* C38 witness: a search() whose categories string is " ," has returned
\* nothing, with an enabled engine that declares "general" registered and
\* its breaker Closed.
C38_Witness ==
    /\ srch[1].phase = "returned" /\ srch[1].query = << " ", "," >>
    /\ srch[1].ret = << >>
    /\ config["e1"].enabled /\ brk["e1"].state = "Closed"
    /\ General \in DeclaredTags("e1")

(***************************************************************************)
(* Arrival order.  Every slot holds a search() for "general,images" issued *)
(* at the same instant against a registry whose three engines are enabled  *)
(* and registered without a throttle: each call has spawned its three      *)
(* tasks and each task has passed the breaker and called its adapter.  The *)
(* adapter calls end in any order, and the calls are harvested in that     *)
(* order.                                                                  *)
(***************************************************************************)
\* the weights e1 is registered with, in units of 1/12: 1.0 and 256.0
ArrivalWeights == { 12, 3072 }

InitArrival ==
    /\ now = 0
    /\ cb = NewBreaker(1, 1)
    /\ cbHist = NoCall(cb)
    /\ \E w \in ArrivalWeights :
          config = [e \in Engines |->
                      [Settings(e) EXCEPT !.enabled = TRUE, !.throttle = 0,
                                          !.weight = IF e = "e1" THEN w ELSE @]]
    /\ brk = [e \in Engines |->
                NewBreaker(EngineConfig(e).failure_threshold, EngineConfig(e).cooldown)]
    /\ last_request = [e \in Engines |-> None]
    /\ task = [x \in TaskIds |->
                 [NoTask EXCEPT !.pc = "inflight", !.adm = "closed", !.t0 = Some(0)]]
    /\ srch = [s \in Slots |->
                 [IdleSearch EXCEPT !.phase = "running",
                                    !.query = << "general", ",", "images" >>]]
    /\ obs = [searches |-> 0, calls |-> 0, calls0 |-> 0, late |-> FALSE, probes |-> 0]
    /\ call = NoPureCall

NextArrival ==
    \/ \E s \in Slots, e \in Engines : AdapterOk(s, e) /\ UNCHANGED << obs, call >>
    \/ \E s \in Slots, e \in Engines : AdapterErr(s, e) /\ UNCHANGED << obs, call >>
    \/ \E s \in Slots : Return(s) /\ UNCHANGED << obs, call >>

SpecArrival == InitArrival /\ [][NextArrival]_vars

\* calls s and t have returned and each engine's task ended with the same
\* list in both
SameLists(s, t) ==
    /\ srch[s].phase = "returned" /\ srch[t].phase = "returned"
    /\ \A e \in Engines : task[<<s, e>>].out = task[<<t, e>>].out

\* the urls of a sequence of results
UrlsOf(out) == { out[i].url : i \in 1..Len(out) }

\* the result with url u in a sequence that has one
At(out, u) == out[CHOOSE i \in 1..Len(out) : out[i].url = u]

\* the engine ids of a result
IdsOf(res) == { res.engines[j] : j \in 1..Len(res.engines) }

\* how many results of call s were merged into the result with url u
Contributions(s, u) ==
    Cardinality({ i \in 1..Len(srch[s].raw) : NormalizeUrl(srch[s].raw[i].url) = u })

\* C39 as stated: the output urls, the merged score of each url and the
\* engine ids of each url do not depend on the order in which the tasks
\* ended.
C39_ArrivalOrderIndependent ==
    \A s, t \in Slots :
        SameLists(s, t) =>
            /\ UrlsOf(srch[s].ret) = UrlsOf(srch[t].ret)
            /\ \A u \in UrlsOf(srch[s].ret) :
                  /\ At(srch[s].ret, u).score = At(srch[t].ret, u).score
                  /\ IdsOf(At(srch[s].ret, u)) = IdsOf(At(srch[t].ret, u))

\* C39 (arrival-order independence), as it holds: the output urls and the
\* engine ids of each url do not depend on the order in which the tasks
\* ended, and neither does the merged score of a url that at most two
\* results contributed to; the score of a url with more contributions is
\* their f64 sum taken in arrival order.
C39_ArrivalOrderUpToRounding ==
    \A s, t \in Slots :
        SameLists(s, t) =>
            /\ UrlsOf(srch[s].ret) = UrlsOf(srch[t].ret)
            /\ \A u \in UrlsOf(srch[s].ret) :
                  /\ IdsOf(At(srch[s].ret, u)) = IdsOf(At(srch[t].ret, u))
                  /\ Contributions(s, u) <= 2 =>
                        At(srch[s].ret, u).score = At(srch[t].ret, u).score

\* C39 witness: two calls harvested the same three lists in different
\* orders; a url found by two engines has the same score in both, and the
\* url found by all three has not.
C39_Witness ==
    /\ SameLists(1, 2)
    /\ srch[1].raw # srch[2].raw
    /\ \A e \in Engines : task[<<1, e>>].out # << >>
    /\ \E u \in UrlsOf(srch[1].ret) :
          /\ Contributions(1, u) = 3
          /\ At(srch[1].ret, u).score # At(srch[2].ret, u).score

(***************************************************************************)
(* Termination of search() (checked under SpecTerm).                       *)
(***************************************************************************)
\* the task of engine e is spawned and has not ended
Running(e) == task[<<1, e>>].pc \in {"check", "throttle", "wait", "inflight"}

\* one search() call at a time, for "general,images", never dropped
NextTerm ==
    \/ Tick
    \/ StartLive(<< "general", ",", "images" >>)
    \/ \E e \in Engines : TaskCheck(1, e) /\ UNCHANGED << obs, call >>
    \/ \E e \in Engines : TaskThrottle(1, e) /\ UNCHANGED << obs, call >>
    \/ \E e \in Engines : TaskInvoke(1, e) /\ UNCHANGED << obs, call >>
    \/ \E e \in Engines : CallEnds(e)
    \/ Return(1) /\ UNCHANGED << obs, call >>

SpecTerm == Init /\ [][NextTerm]_vars /\ Fairness

\* C40 (search terminates): with every adapter call coming to an end and
\* every sleep ending, each spawned task ends and a search() call that is
\* not dropped by its caller returns; when it has returned none of its
\* tasks is still running.
C40_SearchTerminates ==
    /\ (srch[1].phase = "running") ~>
          (srch[1].phase = "returned" /\ \A e \in Engines : ~Running(e))
    /\ [](srch[1].phase = "returned" => \A e \in Engines : ~Running(e))

\* C40 witness: a search() has returned after one of its tasks slept in the
\* throttle and another was cut off by its timeout.
C40_Witness ==
    /\ srch[1].phase = "returned"
    /\ task[<<1, "e1">>].pc = "done" /\ task[<<1, "e1">>].slept
    /\ task[<<1, "e2">>].pc = "done" /\ task[<<1, "e2">>].res = "timeout"

=============================================================================
